---------------------------- MODULE Spec2Model ----------------------------
(***************************************************************************)
(* A model of the synchronisation scheduler of the share-using-gist        *)
(* Obsidian plugin (src/main.ts): the debounced auto-sync, the rate-limit  *)
(* tracker with its emergency disable and re-enable timer, and the manual  *)
(* publish and pull commands with their credential validation.             *)
(*                                                                         *)
(* The plugin runs in one cooperative JavaScript context.  A handler runs  *)
(* to its next network await (image upload, gist create/update/fetch) as   *)
(* one action; the response of the network call is a later action.  Reads  *)
(* and writes of the document store complete within the action.  The image *)
(* uploads of an operation and the gist request that follows them are one  *)
(* stage, "remote": a failed upload is caught per image and the operation  *)
(* goes on to its gist request all the same.                               *)
(***************************************************************************)
EXTENDS Integers, Sequences, FiniteSets

(***************************************************************************)
(* Bounds of the model.                                                    *)
(***************************************************************************)
MaxTimers == 2      \* timeout handles available to the debounce
MaxSyncs == 1       \* auto-syncs that may be in flight together
MaxReenable == 2    \* re-enable timeouts that may be pending together
NowMs == 100000     \* the reading of Date.now(), in ms

(***************************************************************************)
(* Program constants.                                                      *)
(***************************************************************************)
DefaultLimit == 5000
DefaultDebounceDelay == 1500
DefaultEmergencyThreshold == 100
HourMs == 3600000

Docs == {"A", "B"}
NoFile == "-"

\* Classes of the credential strings, by what validateSettings tests.
TokenChoices == {"", "ghp_valid", "junk"}
ClientIdChoices == {"", "abc123"}

\* A response header that is not present.
Absent == -1
\* The quota headers of a response: the reset time is now, a second from
\* now or an hour from now, and the remaining quota is below the emergency
\* threshold, at it or one above it.
NowSec == NowMs \div 1000
Quota(remaining, reset) ==
    [limit |-> DefaultLimit, remaining |-> remaining, reset |-> reset,
     used |-> DefaultLimit - remaining]
Headers ==
    {Quota(DefaultEmergencyThreshold, t) : t \in {NowSec + 1, NowSec + 3600}}
    \cup {Quota(5, NowSec)}
    \cup {Quota(DefaultEmergencyThreshold + 1, NowSec + 1)}
    \cup {[limit |-> Absent, remaining |-> Absent, reset |-> Absent, used |-> Absent]}

\* Error messages of a failed request, by the branch of handlePublishError.
ErrorKinds == {"401", "403", "404", "network", "Imgur", "other"}

VARIABLES
    settings,          \* this.settings
    saved,             \* the settings last written by saveData
    isPublishing,      \* this.isPublishing
    adaptiveDebounce,  \* this.adaptiveDebounce: baseDelay, currentDelay, rateLimit
    timeoutId,         \* the closure variable of setupDynamicDebounce (0: undefined)
    timers,            \* the pending debounce timeouts, by handle
    reenable,          \* the number of pending re-enable timeouts
    docs,              \* the vault: the publish URL field of each document
    pub,               \* the manual publish in flight
    pull,              \* the manual pull in flight
    syncs,             \* the auto-syncs in flight, by slot
    notices,           \* the notices of a refusal or of a failure raised by the
                       \* step just taken
    content,           \* the text handed to a text operation (parseFrontmatter,
                       \* updateFrontmatter, the converters, the image uploads)
    result             \* what the text operation has produced so far

vars == <<settings, saved, isPublishing, adaptiveDebounce, timeoutId, timers,
          reenable, docs, pub, pull, syncs, notices, content, result>>

\* The variables of the scheduler and those of the text operations.
schedVars == <<settings, saved, isPublishing, adaptiveDebounce, timeoutId,
               timers, reenable, docs, pub, pull, syncs, notices>>
textVars == <<content, result>>

NoTimer == [file |-> NoFile, delay |-> 0]
IdleSync == [pc |-> "idle", file |-> NoFile]
IdlePub == [pc |-> "idle", file |-> NoFile]
IdlePull == [pc |-> "idle", file |-> NoFile]

DEFAULT_SETTINGS ==
    [githubToken |-> "",
     imgurClientId |-> "",
     enableAutoSync |-> FALSE,
     debounceDelay |-> DefaultDebounceDelay,
     enableAdaptiveDebounce |-> TRUE,
     enableManualPull |-> TRUE,
     syncNotifications |-> "all",
     emergencyDisableThreshold |-> DefaultEmergencyThreshold,
     showFrontmatter |-> TRUE,
     compatibilityMode |-> "github-native",
     preserveWikilinks |-> FALSE,
     convertTags |-> TRUE,
     convertCallouts |-> FALSE,
     handleMath |-> "preserve",
     handlePluginContent |-> "convert",
     tagConversionFormat |-> "inline-code",
     commentConversionFormat |-> "html-comments",
     dataviewConversionFormat |-> "descriptive-blocks",
     showCompatibilityReport |-> TRUE]

\* new AdaptiveDebounce(baseDelay)
NewAdaptiveDebounce(baseDelay) ==
    [baseDelay |-> baseDelay,
     currentDelay |-> baseDelay,
     rateLimit |-> [limit |-> DefaultLimit, remaining |-> DefaultLimit,
                    reset |-> 0, used |-> 0]]

\* loadSettings: the defaults, overridden by the data saved by an earlier
\* session.
LoadedSettings ==
    {[DEFAULT_SETTINGS EXCEPT !.githubToken = token,
                              !.imgurClientId = clientId,
                              !.enableAutoSync = autoSync,
                              !.enableAdaptiveDebounce = adaptive,
                              !.enableManualPull = manualPull] :
        token \in TokenChoices, clientId \in ClientIdChoices,
        autoSync \in BOOLEAN, adaptive \in BOOLEAN, manualPull \in BOOLEAN}

\* The state after onload: the settings are those loaded, and each document
\* of the vault was published by an earlier session or was not.
Init ==
    /\ settings \in LoadedSettings
    /\ saved = settings
    /\ isPublishing = FALSE
    /\ adaptiveDebounce = NewAdaptiveDebounce(settings.debounceDelay)
    /\ timeoutId = 0
    /\ timers = [h \in 1..MaxTimers |-> NoTimer]
    /\ reenable = 0
    /\ docs \in [Docs -> {[url |-> "none"], [url |-> "gist"]}]
    /\ pub = IdlePub
    /\ pull = IdlePull
    /\ syncs = [s \in 1..MaxSyncs |-> IdleSync]
    /\ notices = <<>>
    /\ content = <<>>
    /\ result = <<>>


(***************************************************************************)
(* AdaptiveDebounce: the rate-limit tracker.                               *)
(***************************************************************************)

\* parseInt(headers[name] || fallback)
ParseHeader(v, fallback) == IF v = Absent THEN fallback ELSE v

\* An adjustDebounceDelay whose 1.5x band starts at 40% usage.
AdjustDebounceDelayFrom40(ad) ==
    LET limit == ad.rateLimit.limit
        usedTimes10 == 10 * (limit - ad.rateLimit.remaining)
        delay == IF usedTimes10 > 9 * limit THEN ad.baseDelay * 8
                 ELSE IF usedTimes10 > 8 * limit THEN ad.baseDelay * 4
                 ELSE IF usedTimes10 > 6 * limit THEN ad.baseDelay * 2
                 ELSE IF usedTimes10 >= 4 * limit THEN (ad.baseDelay * 3) \div 2
                 ELSE ad.baseDelay
    IN  [ad EXCEPT !.currentDelay = delay]

\* adjustDebounceDelay: usagePercentage = (limit - remaining) / limit is
\* compared with 0.9, 0.8, 0.6 and 0.4; with limit > 0 these are the integer
\* comparisons below.  baseDelay * 1.5 is exact for the even base delays of
\* the settings dropdown.
AdjustDebounceDelay(ad) ==
    LET limit == ad.rateLimit.limit
        usedTimes10 == 10 * (limit - ad.rateLimit.remaining)
        delay == IF usedTimes10 > 9 * limit THEN ad.baseDelay * 8
                 ELSE IF usedTimes10 > 8 * limit THEN ad.baseDelay * 4
                 ELSE IF usedTimes10 > 6 * limit THEN ad.baseDelay * 2
                 ELSE IF usedTimes10 > 4 * limit THEN (ad.baseDelay * 3) \div 2
                 ELSE ad.baseDelay
    IN  [ad EXCEPT !.currentDelay = delay]

\* An updateRateLimit that keeps the lower of the stored and the reported
\* remaining quota.
UpdateRateLimitKeepsLower(ad, headers) ==
    LET reported == ParseHeader(headers.remaining, DefaultLimit)
        kept == IF ad.rateLimit.remaining < reported
                THEN ad.rateLimit.remaining ELSE reported
    IN  AdjustDebounceDelay(
            [ad EXCEPT !.rateLimit =
                [limit |-> ParseHeader(headers.limit, DefaultLimit),
                 remaining |-> kept,
                 reset |-> ParseHeader(headers.reset, 0),
                 used |-> ParseHeader(headers.used, 0)]])

\* updateRateLimit(headers)
UpdateRateLimit(ad, headers) ==
    AdjustDebounceDelay(
        [ad EXCEPT !.rateLimit =
            [limit |-> ParseHeader(headers.limit, DefaultLimit),
             remaining |-> ParseHeader(headers.remaining, DefaultLimit),
             reset |-> ParseHeader(headers.reset, 0),
             used |-> ParseHeader(headers.used, 0)]])

(***************************************************************************)
(* Credentials.                                                            *)
(***************************************************************************)

\* The three token formats validateSettings accepts.
TokenFormatOk(token) == token = "ghp_valid"

\* validateSettings: the notice it raises, or "" when the settings pass.
ValidateSettings(s) ==
    IF s.githubToken = "" THEN "GitHub token is required"
    ELSE IF s.imgurClientId = "" THEN "Imgur client ID is required"
    ELSE IF ~TokenFormatOk(s.githubToken) THEN "GitHub token appears to be invalid"
    ELSE ""

\* A handlePublishError whose branches fall through to the last one.
HandlePublishErrorFallsThrough(kind) ==
    IF kind = "other" THEN <<"Failed to publish note">>
    ELSE <<"GitHub authentication failed", "Failed to publish note">>

\* handlePublishError: the notices raised for an error message.
HandlePublishError(kind) ==
    IF kind = "401" THEN <<"GitHub authentication failed">>
    ELSE IF kind = "403" THEN <<"GitHub API access denied">>
    ELSE IF kind = "404" THEN <<"Gist not found">>
    ELSE IF kind = "network" THEN <<"Network error">>
    ELSE IF kind = "Imgur" THEN <<"Image upload failed">>
    ELSE <<"Failed to publish note">>

(***************************************************************************)
(* The debounce of setupDynamicDebounce and the vault's modify event.      *)
(***************************************************************************)

\* A clearTimeout that leaves the timeout pending.
ClearTimeoutLeaves(ts, handle) == ts

\* clearTimeout(handle)
ClearTimeout(ts, handle) ==
    IF handle \in DOMAIN ts THEN [ts EXCEPT ![handle] = NoTimer] ELSE ts

FreeHandles(ts) == {h \in DOMAIN ts : ts[h] = NoTimer}

Smallest(S) == CHOOSE x \in S : \A y \in S : x <= y

\* The delay debouncedSync arms its timeout with.
DebounceDelay ==
    IF settings.enableAdaptiveDebounce
    THEN adaptiveDebounce.currentDelay
    ELSE settings.debounceDelay

\* debouncedSync(file): the timeouts and the closure variable afterwards.
DebouncedSync(file) ==
    LET cleared == ClearTimeout(timers, timeoutId)
        handle == Smallest(FreeHandles(cleared))
    IN  [timeoutId |-> handle,
         timers |-> [cleared EXCEPT ![handle] = [file |-> file, delay |-> DebounceDelay]]]

\* A timeout handle is left for debouncedSync.
CanArm == FreeHandles(ClearTimeout(timers, timeoutId)) # {}

\* hasGistUrl: the frontmatter matches /gist-publish-url:\s*https/
HasGistUrl(doc) == doc.url # "none"

\* A shouldAutoSync that does not look at the publishing flag.
ShouldAutoSyncWhilePublishing(file, vault) ==
    /\ settings.enableAutoSync
    /\ HasGistUrl(vault[file])

\* shouldAutoSync(file), on the document as the vault now holds it
ShouldAutoSync(file, vault) ==
    /\ settings.enableAutoSync
    /\ ~isPublishing
    /\ HasGistUrl(vault[file])

\* The handler of the vault's 'modify' event.
ModifyHandler(file, vault) ==
    IF ShouldAutoSync(file, vault)
    THEN DebouncedSync(file)
    ELSE [timeoutId |-> timeoutId, timers |-> timers]

\* The user edits a document; the edit may delete the publish URL field.
UserEdit(d, keepUrl) ==
    /\ CanArm
    /\ LET vault == [docs EXCEPT ![d].url = IF keepUrl THEN @ ELSE "none"]
           armed == ModifyHandler(d, vault)
       IN  /\ docs' = vault
           /\ timeoutId' = armed.timeoutId
           /\ timers' = armed.timers
    /\ notices' = <<>>
    /\ UNCHANGED <<settings, saved, isPublishing, adaptiveDebounce, reenable,
                   pub, pull, syncs>>
    /\ UNCHANGED textVars

(***************************************************************************)
(* The settings tab: every change is followed by saveSettings().  The      *)
(* credentials and the manual-pull switch are changed by no step but the   *)
(* reset: a run keeps those of the loaded settings.                        *)
(***************************************************************************)
ChangeSettings(s) ==
    /\ s # settings
    /\ settings' = s
    /\ saved' = s
    /\ notices' = <<>>
    /\ UNCHANGED <<isPublishing, adaptiveDebounce, timeoutId, timers, reenable,
                   docs, pub, pull, syncs>>
    /\ UNCHANGED textVars

SetEnableAutoSync(v) == ChangeSettings([settings EXCEPT !.enableAutoSync = v])

SetEnableAdaptiveDebounce(v) ==
    ChangeSettings([settings EXCEPT !.enableAdaptiveDebounce = v])

\* The dropdown of the auto-sync delay.
SetDebounceDelay(v) == ChangeSettings([settings EXCEPT !.debounceDelay = v])

\* resetSyncSettings, confirmed
ResetSyncSettings ==
    ChangeSettings([settings EXCEPT
        !.enableAutoSync = FALSE,
        !.debounceDelay = DefaultDebounceDelay,
        !.enableAdaptiveDebounce = TRUE,
        !.enableManualPull = TRUE,
        !.syncNotifications = "all",
        !.emergencyDisableThreshold = DefaultEmergencyThreshold])

(***************************************************************************)
(* autoSyncToGist, run by the debounce timeout.                            *)
(***************************************************************************)

FreeSlots == {s \in DOMAIN syncs : syncs[s].pc = "idle"}

\* The gist API accepts a request only with a token GitHub knows; a request
\* may fail whatever the token is.
RemoteAccepts == TokenFormatOk(settings.githubToken)

\* The frontmatter matches
\* /gist-publish-url:\s*https:\/\/gist\.github\.com\/.*\/(.+)/
GistMatch(doc) == doc.url = "gist"

\* The timeout fires: autoSyncToGist(file) runs up to its first request.
TimerFire(h) ==
    /\ timers[h] # NoTimer
    /\ FreeSlots # {}
    /\ timers' = [timers EXCEPT ![h] = NoTimer]
    /\ LET file == timers[h].file
           slot == Smallest(FreeSlots)
       IN  /\ syncs' = IF GistMatch(docs[file])
                       THEN [syncs EXCEPT ![slot] =
                               [pc |-> "remote", file |-> file]]
                       ELSE syncs
           /\ notices' = <<>>
    /\ UNCHANGED <<settings, saved, isPublishing, adaptiveDebounce, timeoutId,
                   reenable, docs, pub, pull>>
    /\ UNCHANGED textVars

\* An emergency test that passes a remaining quota equal to the threshold.
EmergencyReachedBelow(rateLimit, s) ==
    /\ s.enableAdaptiveDebounce
    /\ rateLimit.remaining < s.emergencyDisableThreshold

\* rateLimit.remaining <= this.settings.emergencyDisableThreshold
EmergencyReached(rateLimit, s) ==
    /\ s.enableAdaptiveDebounce
    /\ rateLimit.remaining <= s.emergencyDisableThreshold

\* A re-enable test that takes in a reset time of now and of an hour away.
ReenableScheduledInclusive(rateLimit, now) ==
    LET delay == rateLimit.reset * 1000 - now
    IN  delay >= 0 /\ delay <= HourMs

\* delay > 0 && delay < 3600000, with delay = reset * 1000 - Date.now()
ReenableScheduled(rateLimit, now) ==
    LET delay == rateLimit.reset * 1000 - now
    IN  delay > 0 /\ delay < HourMs

\* The tracker after the response of an auto-sync.
TrackerAfterSync(ad, headers) ==
    IF settings.enableAdaptiveDebounce THEN UpdateRateLimit(ad, headers) ELSE ad

\* updateGist returns: the tracker is refreshed and checkRateLimitEmergency
\* runs.
SyncOk(s, headers) ==
    /\ syncs[s].pc = "remote"
    /\ RemoteAccepts
    /\ LET ad == TrackerAfterSync(adaptiveDebounce, headers)
           emergency == EmergencyReached(ad.rateLimit, settings)
           disabled == [settings EXCEPT !.enableAutoSync = FALSE]
       IN  /\ adaptiveDebounce' = ad
           /\ settings' = IF emergency THEN disabled ELSE settings
           /\ saved' = IF emergency THEN disabled ELSE saved
           /\ IF emergency /\ ReenableScheduled(ad.rateLimit, NowMs)
              THEN reenable < MaxReenable /\ reenable' = reenable + 1
              ELSE reenable' = reenable
    /\ syncs' = [syncs EXCEPT ![s] = IdleSync]
    /\ notices' = <<>>
    /\ UNCHANGED <<isPublishing, timeoutId, timers, docs, pub, pull>>
    /\ UNCHANGED textVars

\* A catch block that starts the tracker afresh.
AutoSyncCatchResets(state) ==
    [state EXCEPT !.adaptiveDebounce =
        NewAdaptiveDebounce(state.adaptiveDebounce.baseDelay)]

\* What the catch block of autoSyncToGist leaves of the scheduler's state.
AutoSyncCatch(state) == state

\* The notice of the catch block of autoSyncToGist.
AutoSyncFailedNotice ==
    IF settings.syncNotifications # "none" THEN <<"Auto-sync failed">> ELSE <<>>

\* The document cannot be read when the timeout fires: the catch block.
SyncReadFail(h) ==
    /\ timers[h] # NoTimer
    /\ LET state == [settings |-> settings, saved |-> saved,
                     adaptiveDebounce |-> adaptiveDebounce,
                     timeoutId |-> timeoutId,
                     timers |-> [timers EXCEPT ![h] = NoTimer],
                     reenable |-> reenable]
           after == AutoSyncCatch(state)
       IN  /\ settings' = after.settings
           /\ saved' = after.saved
           /\ adaptiveDebounce' = after.adaptiveDebounce
           /\ timeoutId' = after.timeoutId
           /\ timers' = after.timers
           /\ reenable' = after.reenable
    /\ notices' = AutoSyncFailedNotice
    /\ UNCHANGED <<isPublishing, docs, pub, pull, syncs>>
    /\ UNCHANGED textVars

\* updateGist throws: the catch block of autoSyncToGist.
SyncFail(s) ==
    /\ syncs[s].pc = "remote"
    /\ LET state == [settings |-> settings, saved |-> saved,
                     adaptiveDebounce |-> adaptiveDebounce,
                     timeoutId |-> timeoutId, timers |-> timers,
                     reenable |-> reenable]
           after == AutoSyncCatch(state)
       IN  /\ settings' = after.settings
           /\ saved' = after.saved
           /\ adaptiveDebounce' = after.adaptiveDebounce
           /\ timeoutId' = after.timeoutId
           /\ timers' = after.timers
           /\ reenable' = after.reenable
    /\ syncs' = [syncs EXCEPT ![s] = IdleSync]
    /\ notices' = AutoSyncFailedNotice
    /\ UNCHANGED <<isPublishing, docs, pub, pull>>
    /\ UNCHANGED textVars

\* The re-enable timeout of checkRateLimitEmergency fires.
ReenableFire ==
    /\ reenable > 0
    /\ reenable' = reenable - 1
    /\ settings' = [settings EXCEPT !.enableAutoSync = TRUE]
    /\ saved' = settings'
    /\ notices' = <<>>
    /\ UNCHANGED <<isPublishing, adaptiveDebounce, timeoutId, timers, docs,
                   pub, pull, syncs>>
    /\ UNCHANGED textVars

(***************************************************************************)
(* publishNoteToGist, the manual publish command.                          *)
(***************************************************************************)

\* The command runs up to its first request; active is the active file.
\* The gist is updated when the document read holds a publish URL and
\* created when it holds none.
PublishCmd(active) ==
    /\ IF isPublishing
       THEN /\ notices' = <<"Publishing already in progress">>
            /\ UNCHANGED <<isPublishing, pub>>
       ELSE IF active = NoFile
       THEN /\ notices' = <<"No active file found">>
            /\ UNCHANGED <<isPublishing, pub>>
       ELSE IF ValidateSettings(settings) # ""
       THEN /\ notices' = <<ValidateSettings(settings)>>
            /\ UNCHANGED <<isPublishing, pub>>
       ELSE /\ isPublishing' = TRUE
            /\ pub' = [pc |-> "remote", file |-> active]
            /\ notices' = <<>>
    /\ UNCHANGED <<settings, saved, adaptiveDebounce, timeoutId, timers,
                   reenable, docs, pull, syncs>>
    /\ UNCHANGED textVars

\* The tracker after the response of createNewGist or updateGist to a
\* manual publish, and after the response of the fetch of a pull.
TrackerAfterCommand(ad, headers) == ad

\* updateFrontmatter(file, url): the vault afterwards.  The file is left
\* alone when it holds the URL already.
UpdateFrontmatter(vault, file) ==
    [vault EXCEPT ![file].url = "gist"]

\* createNewGist or updateGist returns: finalizePublishing, then the
\* finally block.
PublishOk(headers) ==
    /\ pub.pc = "remote"
    /\ RemoteAccepts
    /\ LET vault == UpdateFrontmatter(docs, pub.file)
           armed == IF vault # docs
                    THEN ModifyHandler(pub.file, vault)
                    ELSE [timeoutId |-> timeoutId, timers |-> timers]
       IN  /\ docs' = vault
           /\ timeoutId' = armed.timeoutId
           /\ timers' = armed.timers
    /\ adaptiveDebounce' = TrackerAfterCommand(adaptiveDebounce, headers)
    /\ isPublishing' = FALSE
    /\ pub' = IdlePub
    /\ notices' = <<>>
    /\ UNCHANGED <<settings, saved, reenable, pull, syncs>>
    /\ UNCHANGED textVars

\* A failure of the request that is not followed by the finally block.
PublishFailKeepsFlag(kind) ==
    /\ pub.pc = "remote"
    /\ pub' = IdlePub
    /\ notices' = HandlePublishError(kind)
    /\ UNCHANGED <<settings, saved, isPublishing, adaptiveDebounce, timeoutId,
                   timers, reenable, docs, pull, syncs>>
    /\ UNCHANGED textVars

\* createNewGist or updateGist throws: the catch and finally blocks.
PublishFail(kind) ==
    /\ pub.pc = "remote"
    /\ isPublishing' = FALSE
    /\ pub' = IdlePub
    /\ notices' = HandlePublishError(kind)
    /\ UNCHANGED <<settings, saved, adaptiveDebounce, timeoutId, timers,
                   reenable, docs, pull, syncs>>
    /\ UNCHANGED textVars

(***************************************************************************)
(* pullCurrentNoteFromGist, the manual pull command.                       *)
(***************************************************************************)

\* The command runs up to the fetch request; confirmed is the answer to
\* the confirmation dialog.
PullCmd(active, confirmed) ==
    /\ pull.pc = "idle"
    /\ IF active = NoFile
       THEN /\ notices' = <<"No active file found">>
            /\ pull' = pull
       ELSE IF ~settings.enableManualPull
       THEN /\ notices' = <<"Manual pull is disabled in settings">>
            /\ pull' = pull
       ELSE IF ValidateSettings(settings) # ""
       THEN /\ notices' = <<ValidateSettings(settings)>>
            /\ pull' = pull
       ELSE IF ~GistMatch(docs[active])
       THEN /\ notices' = <<"No gist URL found in this note">>
            /\ pull' = pull
       ELSE IF ~confirmed
       THEN /\ notices' = <<>>
            /\ pull' = pull
       ELSE /\ notices' = <<>>
            /\ pull' = [pc |-> "remote", file |-> active]
    /\ UNCHANGED <<settings, saved, isPublishing, adaptiveDebounce, timeoutId,
                   timers, reenable, docs, pub, syncs>>
    /\ UNCHANGED textVars

\* The fetch returns: the note is overwritten with the frontmatter parsed
\* when the command started, and the vault's modify event follows.
PullOk(headers) ==
    /\ pull.pc = "remote"
    /\ RemoteAccepts
    /\ CanArm
    /\ LET vault == [docs EXCEPT ![pull.file].url = "gist"]
           armed == ModifyHandler(pull.file, vault)
       IN  /\ docs' = vault
           /\ timeoutId' = armed.timeoutId
           /\ timers' = armed.timers
    /\ adaptiveDebounce' = TrackerAfterCommand(adaptiveDebounce, headers)
    /\ pull' = IdlePull
    /\ notices' = <<>>
    /\ UNCHANGED <<settings, saved, isPublishing, reenable, pub, syncs>>
    /\ UNCHANGED textVars

\* The fetch throws, or the gist holds no content: the catch block.
PullFail ==
    /\ pull.pc = "remote"
    /\ pull' = IdlePull
    /\ notices' = <<"Pull failed">>
    /\ UNCHANGED <<settings, saved, isPublishing, adaptiveDebounce, timeoutId,
                   timers, reenable, docs, pub, syncs>>
    /\ UNCHANGED textVars

(***************************************************************************)
(* The specification.                                                      *)
(***************************************************************************)
Next ==
    \/ \E d \in Docs, keepUrl \in BOOLEAN : UserEdit(d, keepUrl)
    \/ \E v \in BOOLEAN : SetEnableAutoSync(v)
    \/ \E v \in BOOLEAN : SetEnableAdaptiveDebounce(v)
    \/ ResetSyncSettings
    \/ \E h \in 1..MaxTimers : TimerFire(h)
    \/ \E h \in 1..MaxTimers : SyncReadFail(h)
    \/ \E s \in 1..MaxSyncs, headers \in Headers : SyncOk(s, headers)
    \/ \E s \in 1..MaxSyncs : SyncFail(s)
    \/ ReenableFire
    \/ \E active \in Docs \cup {NoFile} : PublishCmd(active)
    \/ \E headers \in Headers : PublishOk(headers)
    \/ \E kind \in ErrorKinds : PublishFail(kind)
    \/ \E active \in Docs \cup {NoFile}, confirmed \in BOOLEAN : PullCmd(active, confirmed)
    \/ \E headers \in Headers : PullOk(headers)
    \/ PullFail

Spec == Init /\ [][Next]_vars

(***************************************************************************)
(* The tracker alone: quotas of every usage fraction are reported to a     *)
(* tracker built on each base delay of the settings dropdown.              *)
(***************************************************************************)
MaxLimit == 20

BaseDelays == {500, 1000, 1500, 2000, 3000}

InitDelay ==
    /\ settings = DEFAULT_SETTINGS
    /\ saved = settings
    /\ isPublishing = FALSE
    /\ \E base \in BaseDelays : adaptiveDebounce = NewAdaptiveDebounce(base)
    /\ timeoutId = 0
    /\ timers = [h \in 1..MaxTimers |-> NoTimer]
    /\ reenable = 0
    /\ docs = [d \in Docs |-> [url |-> "none"]]
    /\ pub = IdlePub
    /\ pull = IdlePull
    /\ syncs = [s \in 1..MaxSyncs |-> IdleSync]
    /\ notices = <<>>
    /\ content = <<>>
    /\ result = <<>>

ReportQuota(limit, remaining) ==
    /\ adaptiveDebounce' =
           UpdateRateLimit(adaptiveDebounce,
                           [limit |-> limit, remaining |-> remaining,
                            reset |-> 0, used |-> limit - remaining])
    /\ UNCHANGED <<settings, saved, isPublishing, timeoutId, timers, reenable,
                   docs, pub, pull, syncs, notices>>
    /\ UNCHANGED textVars

NextDelay == \E limit \in 1..MaxLimit : \E remaining \in 0..limit :
                 ReportQuota(limit, remaining)

SpecDelay == InitDelay /\ [][NextDelay]_vars

(***************************************************************************)
(* Properties of the debounce.                                             *)
(***************************************************************************)

PendingFor(d) == {h \in DOMAIN timers : timers[h].file = d}

\* The edit of document d is qualifying: auto-sync is enabled, no manual
\* publish is in flight, and the document as edited holds a publish URL.
Qualifying(d) ==
    /\ settings.enableAutoSync
    /\ ~isPublishing
    /\ docs'[d].url # "none"

\* C1: at most one sync timeout is pending for a document, whatever the
\* sequence of edits was.
C1_SingleSlot == \A d \in Docs : Cardinality(PendingFor(d)) <= 1

\* C1: a timeout is pending for a document, armed with a delay that an
\* earlier sync of the session had raised.
C1_Witness ==
    \E h \in DOMAIN timers :
        /\ timers[h].file = "A"
        /\ timers[h].delay > DefaultDebounceDelay

\* C2: an edit of a document leaves the pending timeout of every other
\* document armed.
C2_PerDocument ==
    [][\A a \in Docs : \A b \in Docs \ {a} : \A keepUrl \in BOOLEAN :
          UserEdit(b, keepUrl) =>
              \A h \in DOMAIN timers :
                  timers[h].file = a => timers'[h] = timers[h]]_vars

\* C3: a timeout is armed only by a qualifying event, and an edit that is
\* not qualifying arms no timeout and leaves the pending one untouched.
C3_ArmsOnlyWhenQualifying ==
    [][/\ \A h \in DOMAIN timers :
              (timers'[h] # NoTimer /\ timers'[h] # timers[h]) =>
                  Qualifying(timers'[h].file)
       /\ \A d \in Docs, keepUrl \in BOOLEAN :
              (UserEdit(d, keepUrl) /\ ~Qualifying(d)) =>
                  (timers' = timers /\ timeoutId' = timeoutId)]_vars

\* C3: a timeout is pending while a manual publish is in flight.
C3_Witness == isPublishing /\ \E h \in DOMAIN timers : timers[h] # NoTimer

(***************************************************************************)
(* Properties of the rate-limit tracker and the emergency disable.         *)
(***************************************************************************)

\* The quota a response reports, a missing header read as its default.
Reported(headers) ==
    [limit |-> IF headers.limit = Absent THEN DefaultLimit ELSE headers.limit,
     remaining |-> IF headers.remaining = Absent THEN DefaultLimit
                   ELSE headers.remaining,
     reset |-> IF headers.reset = Absent THEN 0 ELSE headers.reset,
     used |-> IF headers.used = Absent THEN 0 ELSE headers.used]

\* The response reports a remaining quota at or below the threshold.
ReportsEmergency(headers) ==
    Reported(headers).remaining <= settings.emergencyDisableThreshold

\* C4, as claimed: whenever a sync response reports a remaining quota at or
\* below emergencyDisableThreshold, enableAutoSync is false afterwards and
\* the settings are persisted, whatever the other settings are.
C4_DisabledWhateverTheSettings ==
    [][\A s \in DOMAIN syncs : \A headers \in Headers :
          (SyncOk(s, headers) /\ ReportsEmergency(headers)) =>
              (~settings'.enableAutoSync /\ ~saved'.enableAutoSync)]_vars

\* C4, amended: when a sync response reports a remaining quota at or below
\* emergencyDisableThreshold and adaptive debounce is enabled,
\* enableAutoSync is false afterwards and the settings are persisted; with
\* adaptive debounce disabled the response changes neither the settings nor
\* what is persisted.
C4_DisabledWhenAdaptive ==
    [][\A s \in DOMAIN syncs : \A headers \in Headers :
          (SyncOk(s, headers) /\ ReportsEmergency(headers)) =>
              IF settings.enableAdaptiveDebounce
              THEN /\ ~settings'.enableAutoSync
                   /\ ~saved'.enableAutoSync
                   /\ saved' = settings'
              ELSE settings' = settings /\ saved' = saved]_vars

\* C4: a sync response has reported a remaining quota equal to the
\* threshold, and auto-sync is disabled in the settings and in the saved
\* settings.
C4_Witness ==
    /\ adaptiveDebounce.rateLimit.remaining = settings.emergencyDisableThreshold
    /\ ~settings.enableAutoSync
    /\ ~saved.enableAutoSync

\* The reset time a response reports is more than zero and less than an
\* hour away.
ResetWithinTheHour(headers) ==
    /\ Reported(headers).reset * 1000 > NowMs
    /\ Reported(headers).reset * 1000 < NowMs + HourMs

C6_FailureLeavesScheduler ==
    [][/\ \A s \in DOMAIN syncs :
              SyncFail(s) =>
                  /\ syncs'[s] = IdleSync
                  /\ timers' = timers
                  /\ timeoutId' = timeoutId
                  /\ adaptiveDebounce' = adaptiveDebounce
                  /\ settings' = settings /\ saved' = saved
                  /\ reenable' = reenable
                  /\ isPublishing' = isPublishing
       /\ \A h \in DOMAIN timers :
              SyncReadFail(h) =>
                  /\ syncs' = syncs
                  /\ timers' = [timers EXCEPT ![h] = NoTimer]
                  /\ timeoutId' = timeoutId
                  /\ adaptiveDebounce' = adaptiveDebounce
                  /\ settings' = settings /\ saved' = saved
                  /\ reenable' = reenable
                  /\ isPublishing' = isPublishing
       /\ \A d \in Docs : \A keepUrl \in BOOLEAN :
              (UserEdit(d, keepUrl) /\ Qualifying(d)) =>
                  /\ timers'[timeoutId'] =
                         [file |-> d,
                          delay |-> IF settings.enableAdaptiveDebounce
                                    THEN adaptiveDebounce.currentDelay
                                    ELSE settings.debounceDelay]
                  /\ \A h \in DOMAIN timers :
                         h # timeoutId' => timers'[h] = NoTimer]_vars

\* C6: an auto-sync has just failed after an earlier response had raised
\* the delay: auto-sync is still enabled, no sync is in flight and no
\* timeout is pending.
C6_Witness ==
    /\ notices = <<"Auto-sync failed">>
    /\ settings.enableAutoSync
    /\ adaptiveDebounce.currentDelay > adaptiveDebounce.baseDelay
    /\ \A s \in DOMAIN syncs : syncs[s] = IdleSync
    /\ \A h \in DOMAIN timers : timers[h] = NoTimer

\* Twice the multiplier of a usage of used out of limit, the bands closed
\* at their upper ends.
TwiceMultiplier(used, limit) ==
    IF 100 * used <= 40 * limit THEN 2
    ELSE IF 100 * used <= 60 * limit THEN 3
    ELSE IF 100 * used <= 80 * limit THEN 4
    ELSE IF 100 * used <= 90 * limit THEN 8
    ELSE 16

\* C7, as claimed: the delay is the base delay times 1 below 40% usage, 1.5
\* from 40% to 60%, 2 from 60% to 80%, 4 from 80% to 90% and 8 above 90%.
\* A usage of exactly 60%, 80% or 90% may take the multiplier of either
\* band it bounds.
C7_BandsAsClaimed ==
    LET base == adaptiveDebounce.baseDelay
        twice == 2 * adaptiveDebounce.currentDelay
        limit == adaptiveDebounce.rateLimit.limit
        pct == 100 * (limit - adaptiveDebounce.rateLimit.remaining)
    IN  /\ pct < 40 * limit => twice = 2 * base
        /\ (pct >= 40 * limit /\ pct < 60 * limit) => twice = 3 * base
        /\ pct = 60 * limit => twice \in {3 * base, 4 * base}
        /\ (pct > 60 * limit /\ pct < 80 * limit) => twice = 4 * base
        /\ pct = 80 * limit => twice \in {4 * base, 8 * base}
        /\ (pct > 80 * limit /\ pct < 90 * limit) => twice = 8 * base
        /\ pct = 90 * limit => twice \in {8 * base, 16 * base}
        /\ pct > 90 * limit => twice = 16 * base

\* C7, amended: the delay is the base delay times 1 at or below 40% usage,
\* 1.5 above 40% up to 60%, 2 above 60% up to 80%, 4 above 80% up to 90%
\* and 8 above 90%; base 1000 ms gives 4000 ms at 85% usage and 8000 ms at
\* 95% usage.
C7_BandsClosedAbove ==
    LET base == adaptiveDebounce.baseDelay
        limit == adaptiveDebounce.rateLimit.limit
        used == limit - adaptiveDebounce.rateLimit.remaining
    IN  /\ 2 * adaptiveDebounce.currentDelay = base * TwiceMultiplier(used, limit)
        /\ (base = 1000 /\ 100 * used = 85 * limit) =>
               adaptiveDebounce.currentDelay = 4000
        /\ (base = 1000 /\ 100 * used = 95 * limit) =>
               adaptiveDebounce.currentDelay = 8000

\* C7: a quota of exactly 40% usage has been reported to a tracker of base
\* delay 1000 ms, and the delay is the base delay.
C7_Witness ==
    /\ adaptiveDebounce.baseDelay = 1000
    /\ adaptiveDebounce.rateLimit.limit = 20
    /\ adaptiveDebounce.rateLimit.remaining = 12
    /\ adaptiveDebounce.currentDelay = 1000

C9_ValidatedBeforeAnyRequest ==
    [][(/\ ValidateSettings(settings) # ""
        /\ \/ \E active \in Docs : PublishCmd(active)
           \/ \E active \in Docs : \E confirmed \in BOOLEAN :
                  PullCmd(active, confirmed)
           \/ \E h \in DOMAIN timers : TimerFire(h)) =>
           /\ pub' = pub /\ pull' = pull /\ syncs' = syncs
           /\ docs' = docs
           /\ isPublishing' = isPublishing
           /\ settings' = settings]_vars

\* C10: a manual publish whose create or update request fails leaves the
\* documents as they were and raises exactly one error notice; a publish
\* ends in no other way than by this or with the URL in the document.
C10_FailedPublishAborts ==
    [][/\ \A kind \in ErrorKinds :
              PublishFail(kind) =>
                  /\ docs' = docs
                  /\ Len(notices') = 1
                  /\ ~isPublishing'
       /\ (pub.pc = "remote" /\ pub'.pc = "idle") =>
              \/ notices' = <<>> /\ docs'[pub.file].url = "gist"
              \/ Len(notices') = 1 /\ docs' = docs]_vars

\* C10: the update request of a manual publish has just failed for a gist
\* that is gone; one notice is raised and no publish is in flight.
C10_Witness ==
    /\ notices = <<"Gist not found">>
    /\ pub = IdlePub
    /\ ~isPublishing

(***************************************************************************)
(* The text operations.  They read no state of the scheduler: each of      *)
(* their specifications starts with the scheduler at rest and leaves it    *)
(* there.                                                                  *)
(***************************************************************************)
AtRestWith(loaded) ==
    /\ settings = loaded
    /\ saved = settings
    /\ isPublishing = FALSE
    /\ adaptiveDebounce = NewAdaptiveDebounce(settings.debounceDelay)
    /\ timeoutId = 0
    /\ timers = [h \in 1..MaxTimers |-> NoTimer]
    /\ reenable = 0
    /\ docs = [d \in Docs |-> [url |-> "none"]]
    /\ pub = IdlePub
    /\ pull = IdlePull
    /\ syncs = [s \in 1..MaxSyncs |-> IdleSync]
    /\ notices = <<>>

AtRest == AtRestWith(DEFAULT_SETTINGS)

\* The sequences over S of length lo..hi.
SeqsOf(S, lo, hi) == UNION {[1..n -> S] : n \in lo..hi}

(***************************************************************************)
(* uploadImagesAndReplaceLinks.  The content is a sequence of items: a run *)
(* of text, an image embed ![[name]], the link of an uploaded image, or    *)
(* the placeholder of a failed upload.  The items of an input are text and *)
(* embeds; a name the metadata cache does not resolve is missing for the   *)
(* whole call.                                                             *)
(***************************************************************************)
MaxItems == 3

ImageNames == {"a.png", "b.png"}

TextItem == [kind |-> "text", ref |-> "-"]
Embed(name) == [kind |-> "embed", ref |-> name]
Uploaded(url) == [kind |-> "uploaded", ref |-> url]
UploadFailed(name) == [kind |-> "failed", ref |-> name]

\* Array.from(content.matchAll(imageRegex)): the names embedded, in order.
RECURSIVE ImageMatches(_)
ImageMatches(items) ==
    IF items = <<>> THEN <<>>
    ELSE IF Head(items).kind = "embed"
         THEN <<Head(items).ref>> \o ImageMatches(Tail(items))
         ELSE ImageMatches(Tail(items))

\* A replace that rewrites every occurrence of the item.
ReplaceEvery(items, old, new) ==
    [p \in DOMAIN items |-> IF items[p] = old THEN new ELSE items[p]]

\* content.replace(match[0], replacement): the first occurrence is replaced.
ReplaceFirst(items, old, new) ==
    LET hits == {p \in DOMAIN items : items[p] = old}
    IN  IF hits = {} THEN items
        ELSE [items EXCEPT ![CHOOSE p \in hits : \A q \in hits : p <= q] = new]

InitUpload ==
    /\ AtRest
    /\ content \in [items : SeqsOf({TextItem} \cup {Embed(n) : n \in ImageNames},
                                    1, MaxItems),
                    missing : SUBSET ImageNames]
    /\ result = [content |-> content.items, i |-> 0, outcome |-> <<>>,
                 requests |-> <<>>]

\* The image the loop is at, when it is not over.
LoopRunning == result.i < Len(ImageMatches(content.items))
CurrentImage == ImageMatches(content.items)[result.i + 1]

\* getFirstLinkpathDest returns null: the loop goes on to the next image.
ImageNotFound ==
    /\ LoopRunning
    /\ CurrentImage \in content.missing
    /\ result' = [result EXCEPT !.i = @ + 1,
                                !.outcome = Append(@, "missing")]
    /\ UNCHANGED <<content, schedVars>>

\* uploadImageToImgur returns the link of the image.
ImageUploaded ==
    /\ LoopRunning
    /\ CurrentImage \notin content.missing
    /\ result' = [result EXCEPT
                     !.i = @ + 1,
                     !.outcome = Append(@, "uploaded"),
                     !.requests = Append(@, result.i + 1),
                     !.content = ReplaceFirst(@, Embed(CurrentImage),
                                              Uploaded(result.i + 1))]
    /\ UNCHANGED <<content, schedVars>>

\* readBinary or uploadImageToImgur throws: the catch block of the loop.
ImageFailed ==
    /\ LoopRunning
    /\ CurrentImage \notin content.missing
    /\ result' = [result EXCEPT
                     !.i = @ + 1,
                     !.outcome = Append(@, "failed"),
                     !.requests = Append(@, result.i + 1),
                     !.content = ReplaceFirst(@, Embed(CurrentImage),
                                              UploadFailed(CurrentImage))]
    /\ UNCHANGED <<content, schedVars>>

NextUpload == ImageNotFound \/ ImageUploaded \/ ImageFailed

SpecUpload == InitUpload /\ [][NextUpload]_vars

\* The position in the input of its k-th embed.
EmbedPosition(k) ==
    CHOOSE p \in DOMAIN content.items :
        /\ content.items[p].kind = "embed"
        /\ Cardinality({q \in 1..p : content.items[q].kind = "embed"}) = k

MaxTokens == 6

Dashes == "---"
Space == " "
Text == "x"
Newline == "\n"

\* content.split('\n')
RECURSIVE Split(_)
Split(doc) ==
    IF \A p \in DOMAIN doc : doc[p] # Newline THEN <<doc>>
    ELSE LET p == CHOOSE q \in DOMAIN doc :
                      doc[q] = Newline /\ \A r \in 1..(q - 1) : doc[r] # Newline
         IN  <<SubSeq(doc, 1, p - 1)>> \o Split(SubSeq(doc, p + 1, Len(doc)))

\* lines.join('\n')
RECURSIVE Join(_)
Join(lines) ==
    IF lines = <<>> THEN <<>>
    ELSE IF Len(lines) = 1 THEN lines[1]
    ELSE lines[1] \o <<Newline>> \o Join(Tail(lines))

\* line.trim(), of a line
RECURSIVE Trim(_)
Trim(line) ==
    IF line = <<>> THEN line
    ELSE IF Head(line) = Space THEN Trim(Tail(line))
    ELSE IF line[Len(line)] = Space THEN Trim(SubSeq(line, 1, Len(line) - 1))
    ELSE line

NoFrontmatter(doc) ==
    [frontmatter |-> <<>>, content |-> doc, hasFrontmatter |-> FALSE]

\* parseFrontmatter(content)
ParseFrontmatter(doc) ==
    IF doc = <<>> \/ Head(doc) # Dashes THEN NoFrontmatter(doc)
    ELSE LET lines == Split(doc)
             closing == {i \in 2..Len(lines) : Trim(lines[i]) = <<Dashes>>}
         IN  IF closing = {} THEN NoFrontmatter(doc)
             ELSE LET endIndex == CHOOSE i \in closing : \A j \in closing : i <= j
                      frontmatterLines == SubSeq(lines, 2, endIndex - 1)
                      contentLines == SubSeq(lines, endIndex + 1, Len(lines))
                  IN  [frontmatter |-> <<Dashes, Newline>> \o Join(frontmatterLines)
                                       \o <<Newline, Dashes, Newline>>,
                       content |-> Join(contentLines),
                       hasFrontmatter |-> TRUE]

InitSplit ==
    /\ AtRest
    /\ content \in SeqsOf({Dashes, Space, Text, Newline}, 0, MaxTokens)
    /\ result = <<>>

\* parseFrontmatter is called on the document.
CallParseFrontmatter ==
    /\ result = <<>>
    /\ result' = ParseFrontmatter(content)
    /\ UNCHANGED <<content, schedVars>>

NextSplit == CallParseFrontmatter

SpecSplit == InitSplit /\ [][NextSplit]_vars

\* The line is the delimiter, spaces around it aside.
IsDelimiter(line) == Trim(line) = <<Dashes>>

\* The document has a well-formed block: line 1 is the delimiter, a later
\* line is the delimiter, and no line between them looks like one.
WellFormed(doc) ==
    LET lines == Split(doc)
    IN  /\ lines[1] = <<Dashes>>
        /\ \E i \in 2..Len(lines) :
               /\ lines[i] = <<Dashes>>
               /\ \A j \in 2..(i - 1) : ~IsDelimiter(lines[j])

\* C13: for every document with a well-formed frontmatter block, the raw
\* block followed by the body is the document, token for token.
C13_SplitRejoin ==
    (result # <<>> /\ WellFormed(content)) =>
        result.frontmatter \o result.content = content

\* C14: hasFrontmatter is true only when line 1 is the delimiter and a
\* later line is the delimiter, the first of them closing the block; for
\* every other document the raw block is empty and the body is the whole
\* input.
C14_MalformedIsAbsent ==
    result # <<>> =>
        LET lines == Split(content)
        IN  /\ result.hasFrontmatter =>
                   /\ IsDelimiter(lines[1])
                   /\ \E i \in 2..Len(lines) : IsDelimiter(lines[i])
            /\ ~result.hasFrontmatter =>
                   /\ result.frontmatter = <<>>
                   /\ result.content = content

(***************************************************************************)
(* updateFrontmatter.  The documents hold the key "gist-publish-url:" at   *)
(* the start of a line, followed by a URL or by nothing.                   *)
(***************************************************************************)
MaxLines == 4

Key == "gist-publish-url:"
Urls == {"https://gist.github.com/u/1", "https://gist.github.com/u/2"}

\* The lines of the documents published.
DocLines ==
    {<<Dashes>>, <<Text>>, <<>>, <<Key>>} \cup {<<Key, Space, u>> : u \in Urls}

HoldsKey(line) == \E p \in DOMAIN line : line[p] = Key

\* line.startsWith('gist-publish-url:')
StartsWithKey(line) == line # <<>> /\ Head(line) = Key

\* A findIndex that finds no line.
FindIndexNone(lines) == 0

\* contentLines.findIndex(line => line.startsWith('gist-publish-url:')),
\* counted from 1; 0 when no line is found.
FindIndex(lines) ==
    LET hits == {i \in DOMAIN lines : StartsWithKey(lines[i])}
    IN  IF hits = {} THEN 0 ELSE CHOOSE i \in hits : \A j \in hits : i <= j

\* parsed.frontmatter.match(/gist-publish-url:\s*(.+)/): the first group,
\* trimmed, or the empty sequence when the block does not hold the key.  The
\* whitespace after the key may run over line ends; the group runs to the
\* end of its line.
ExistingUrl(block) ==
    LET keys == {p \in DOMAIN block : block[p] = Key}
    IN  IF keys = {} THEN <<>>
        ELSE LET k == CHOOSE p \in keys : \A q \in keys : p <= q
                 solid == {p \in (k + 1)..Len(block) :
                               block[p] \notin {Space, Newline}}
                 from == CHOOSE p \in solid : \A q \in solid : p <= q
                 ends == {p \in from..Len(block) : block[p] = Newline}
                 to == CHOOSE p \in ends : \A q \in ends : p <= q
             IN  Trim(SubSeq(block, from, to - 1))

\* A filter that keeps every line.
KeepBlank(lines) == lines

\* lines.filter(line => line.trim())
RECURSIVE FilterBlank(_)
FilterBlank(lines) ==
    IF lines = <<>> THEN <<>>
    ELSE IF Trim(Head(lines)) = <<>> THEN FilterBlank(Tail(lines))
    ELSE <<Head(lines)>> \o FilterBlank(Tail(lines))

\* updateFrontmatter(file, url): the content of the file afterwards.
UpdateFrontmatterText(doc, url) ==
    LET parsed == ParseFrontmatter(doc)
        keyLine == <<Key, Space, url>>
    IN  IF ~parsed.hasFrontmatter
        THEN <<Dashes, Newline>> \o keyLine \o <<Newline, Dashes, Newline>> \o doc
        ELSE IF ExistingUrl(parsed.frontmatter) = <<url>> THEN doc
        ELSE LET lines == Split(parsed.frontmatter)
                 contentLines == SubSeq(lines, 2, Len(lines) - 2)
                 gistUrlIndex == FindIndex(contentLines)
                 updated == IF gistUrlIndex > 0
                            THEN [contentLines EXCEPT ![gistUrlIndex] = keyLine]
                            ELSE Append(contentLines, keyLine)
             IN  <<Dashes, Newline>> \o Join(FilterBlank(updated))
                 \o <<Newline, Dashes, Newline>> \o parsed.content

InitFrontmatter ==
    /\ AtRest
    /\ content \in {Join(lines) : lines \in
           {ls \in SeqsOf(DocLines, 1, MaxLines) :
               Cardinality({i \in DOMAIN ls : HoldsKey(ls[i])}) <= 1}}
    /\ result = <<>>

\* A publish succeeds: finalizePublishing writes the URL of the gist.
FinalizePublishing(url) ==
    /\ content' = UpdateFrontmatterText(content, url)
    /\ result' = <<url>>
    /\ UNCHANGED schedVars

NextFrontmatter == \E url \in Urls : FinalizePublishing(url)

SpecFrontmatter == InitFrontmatter /\ [][NextFrontmatter]_vars

\* The lines of the frontmatter block of the document, delimiters aside.
BlockLines(doc) ==
    LET lines == Split(ParseFrontmatter(doc).frontmatter)
    IN  SubSeq(lines, 2, Len(lines) - 2)

\* Once a publish has succeeded the frontmatter holds exactly one line with
\* the key, and that line gives the URL last published.
C12_OneIdentifierLine ==
    result # <<>> =>
        /\ ParseFrontmatter(content).hasFrontmatter
        /\ Cardinality({i \in DOMAIN BlockLines(content) :
                            HoldsKey(BlockLines(content)[i])}) = 1
        /\ \E i \in DOMAIN BlockLines(content) :
               BlockLines(content)[i] = <<Key, Space, result[1]>>

\* A publish of the URL the document holds already leaves the document
\* untouched, and a publish of another URL rewrites the line of the key
\* where it stands: the other lines of the block that are not blank keep
\* their order and the body is as it was.
C12_ReplacedInPlace ==
    [][\A url \in Urls :
          (result # <<>> /\ FinalizePublishing(url)) =>
              IF url = result[1] THEN content' = content
              ELSE LET old == FilterBlank(BlockLines(content))
                       new == BlockLines(content')
                   IN  /\ Len(new) = Len(old)
                       /\ \A i \in DOMAIN old :
                              IF HoldsKey(old[i])
                              THEN new[i] = <<Key, Space, url>>
                              ELSE new[i] = old[i]
                       /\ ParseFrontmatter(content').content =
                              ParseFrontmatter(content).content]_vars

Whitespace == {" ", "\n"}

\* The tokens matched by \w.
Words == {"x", "page", "alias", "img", "png", "md", "warning", "note", "NOTE",
          "Heads", "heads", "up", "details", "Tag", "tag", "Note", "Math",
          "math", "_"}

\* The token at position i, the empty string past either end of the text.
At(s, i) == IF i \in 1..Len(s) THEN s[i] ELSE ""

\* The end of the longest run of tokens outside Stop that starts at i
\* (i - 1 when the run is empty): a greedy negated class.
RunEnd(s, i, Stop) ==
    LET stops == {k \in i..Len(s) : s[k] \in Stop}
    IN  IF stops = {} THEN Len(s)
        ELSE (CHOOSE k \in stops : \A j \in stops : k <= j) - 1

\* The end of the longest run of tokens inside Class that starts at i.
ClassEnd(s, i, Class) ==
    LET others == {k \in i..Len(s) : s[k] \notin Class}
    IN  IF others = {} THEN Len(s)
        ELSE (CHOOSE k \in others : \A j \in others : k <= j) - 1

\* String.prototype.indexOf: the first position of sub in s, 0 for none.
IndexOf(s, sub) ==
    LET found == {i \in 1..(Len(s) - Len(sub) + 1) :
                      SubSeq(s, i, i + Len(sub) - 1) = sub}
    IN  IF found = {} THEN 0 ELSE CHOOSE i \in found : \A j \in found : i <= j

\* The replacement text of String.prototype.replace: $$ stands for a
\* dollar sign and $& for the matched text.
RECURSIVE GetSubstitution(_, _)
GetSubstitution(replacement, matched) ==
    IF replacement = <<>> THEN <<>>
    ELSE IF Head(replacement) = "$" /\ At(replacement, 2) = "$"
    THEN <<"$">> \o GetSubstitution(SubSeq(replacement, 3, Len(replacement)), matched)
    ELSE IF Head(replacement) = "$" /\ At(replacement, 2) = "&"
    THEN matched \o GetSubstitution(SubSeq(replacement, 3, Len(replacement)), matched)
    ELSE <<Head(replacement)>> \o GetSubstitution(Tail(replacement), matched)

\* The text with the occurrence of old at position p replaced.
StringReplaceAt(s, p, old, replacement) ==
    SubSeq(s, 1, p - 1) \o GetSubstitution(replacement, old)
        \o SubSeq(s, p + Len(old), Len(s))

\* String.prototype.replace with a string pattern: the first occurrence of
\* old, if any, is replaced.
StringReplace(s, old, replacement) ==
    LET p == IndexOf(s, old)
    IN  IF p = 0 THEN s ELSE StringReplaceAt(s, p, old, replacement)

\* An empty ConversionResult for the content.
NewResult(text) ==
    [convertedContent |-> text, warnings |-> <<>>, removedElements |-> <<>>,
     changedElements |-> <<>>]

\* One entry of changedElements.
Changed(original, converted, type) ==
    [original |-> original, converted |-> converted, type |-> type]

\* A warning is its wording and the count it reports (0 when it has none).
Warning(text, count) == [text |-> text, count |-> count]

\* The conversion options that prepareContentForPublishing builds.
ConversionOptionsOf(s) ==
    [compatibilityMode |-> s.compatibilityMode,
     preserveWikilinks |-> s.preserveWikilinks,
     convertTags |-> s.convertTags,
     convertCallouts |-> s.convertCallouts,
     handleMath |-> s.handleMath,
     handlePluginContent |-> s.handlePluginContent]

CompatibilityModes == {"github-native", "strict", "permissive"}

(***************************************************************************)
(* Wikilinks.                                                              *)
(***************************************************************************)
\* The detector /\[\[(?!\!)[^\]]+\]\]/ at position i.
WikilinkDetectedAt(s, i) ==
    LET r == RunEnd(s, i + 2, {"]"})
    IN  /\ At(s, i) = "[" /\ At(s, i + 1) = "["
        /\ At(s, i + 2) # "!"
        /\ r >= i + 2
        /\ At(s, r + 1) = "]" /\ At(s, r + 2) = "]"

DetectWikilinks(s) == \E i \in 1..Len(s) : WikilinkDetectedAt(s, i)

NoMatch == [end |-> 0]

\* wikilinkRegex /\[\[(?!\!)([^\]|]+)(?:\|([^\]]+))?\]\]/ at position i:
\* the end of the match, the target and the alias (empty: no alias).
WikilinkAt(s, i) ==
    IF ~(At(s, i) = "[" /\ At(s, i + 1) = "[" /\ At(s, i + 2) # "!")
    THEN NoMatch
    ELSE LET r1 == RunEnd(s, i + 2, {"]", "|"})
             r2 == RunEnd(s, r1 + 2, {"]"})
         IN  IF r1 < i + 2 THEN NoMatch
             ELSE IF At(s, r1 + 1) = "]" /\ At(s, r1 + 2) = "]"
             THEN [end |-> r1 + 2, target |-> SubSeq(s, i + 2, r1),
                   alias |-> <<>>]
             ELSE IF /\ At(s, r1 + 1) = "|" /\ r2 >= r1 + 2
                     /\ At(s, r2 + 1) = "]" /\ At(s, r2 + 2) = "]"
             THEN [end |-> r2 + 2, target |-> SubSeq(s, i + 2, r1),
                   alias |-> SubSeq(s, r1 + 2, r2)]
             ELSE NoMatch

\* linkTarget.replace(/[\s\/]/g, '_')
SanitizeFileName(target) ==
    [k \in 1..Len(target) |->
        IF target[k] \in Whitespace \cup {"/"} THEN "_" ELSE target[k]]

\* The text that replaces a wikilink, by compatibility mode.
ConvertedWikilink(m, options) ==
    LET displayText == IF m.alias # <<>> THEN m.alias ELSE m.target
    IN  IF options.compatibilityMode = "strict" THEN displayText
        ELSE IF options.compatibilityMode = "github-native"
        THEN <<"[">> \o displayText \o <<"]", "(">>
                 \o SanitizeFileName(m.target) \o <<".", "md", ")">>
        ELSE <<"*", "*">> \o displayText \o <<"*", "*">>

\* The position of the first match of the regular expression at or after
\* from, 0 for none; MatchesAt is the set of positions where it matches.
FirstAtOrAfter(MatchesAt, from) ==
    LET later == {i \in MatchesAt : i >= from}
    IN  IF later = {} THEN 0 ELSE CHOOSE i \in later : \A j \in later : i <= j

\* The while loop of convertWikilinks: exec walks the matches of the
\* content it was given, and each one is replaced, by its text, in the
\* content converted so far.
RECURSIVE WikilinkLoop(_, _, _, _)
WikilinkLoop(text, from, options, acc) ==
    LET i == FirstAtOrAfter({k \in 1..Len(text) : WikilinkAt(text, k).end # 0},
                            from)
    IN  IF i = 0 THEN acc
        ELSE LET m == WikilinkAt(text, i)
                 originalText == SubSeq(text, i, m.end)
                 convertedText == ConvertedWikilink(m, options)
             IN  WikilinkLoop(text, m.end + 1, options,
                     [acc EXCEPT
                         !.convertedContent =
                             StringReplace(@, originalText, convertedText),
                         !.changedElements =
                             Append(@, Changed(originalText, convertedText,
                                               "wikilink"))])

ConvertWikilinks(text, options) ==
    IF options.preserveWikilinks THEN NewResult(text)
    ELSE LET looped == WikilinkLoop(text, 1, options, NewResult(text))
             n == Len(looped.changedElements)
         IN  IF n = 0 THEN looped
             ELSE [looped EXCEPT !.warnings = Append(@,
                      IF options.compatibilityMode = "github-native"
                      THEN Warning("Converted wikilinks to standard markdown links", n)
                      ELSE Warning("Converted wikilinks for compatibility", n))]

(***************************************************************************)
(* Image wikilinks.                                                        *)
(***************************************************************************)
\* The detector /!\[\[[^\]]+\]\]/.
DetectImageWikilinks(s) ==
    \E i \in 1..Len(s) :
        LET r == RunEnd(s, i + 3, {"]"})
        IN  /\ At(s, i) = "!" /\ At(s, i + 1) = "[" /\ At(s, i + 2) = "["
            /\ r >= i + 3
            /\ At(s, r + 1) = "]" /\ At(s, r + 2) = "]"

ConvertImageWikilinks(text, options) == NewResult(text)

(***************************************************************************)
(* Tags.                                                                   *)
(***************************************************************************)
\* The class [\w\-\/].
TagChars == Words \cup {"-", "/"}

\* The detector /#[\w\-\/]+(?:\s|$|[^\w\-\/])/: after the longest run of
\* tag characters comes the end of the text or a character outside the
\* class.
DetectTags(s) ==
    \E i \in 1..Len(s) : At(s, i) = "#" /\ ClassEnd(s, i + 1, TagChars) >= i + 1

\* tagRegex /(?:^|\s)(#[\w\-\/]+)(?=\s|$|[^\w\-\/])/gm at position i: the
\* match starts at the tag when the tag starts its line, and at the white
\* space before the tag otherwise.
TagAt(s, i) ==
    IF /\ At(s, i) = "#" /\ (i = 1 \/ At(s, i - 1) = "\n")
       /\ ClassEnd(s, i + 1, TagChars) >= i + 1
    THEN [end |-> ClassEnd(s, i + 1, TagChars), tag |-> i]
    ELSE IF /\ At(s, i) \in Whitespace /\ At(s, i + 1) = "#"
            /\ ClassEnd(s, i + 2, TagChars) >= i + 2
    THEN [end |-> ClassEnd(s, i + 2, TagChars), tag |-> i + 1]
    ELSE NoMatch

\* content.lastIndexOf('\n', index) + 1
LineStart(s, index) ==
    LET breaks == {k \in 1..index : s[k] = "\n"}
    IN  IF breaks = {} THEN 1
        ELSE (CHOOSE k \in breaks : \A j \in breaks : j <= k) + 1

\* beforeTag.trim() === ''
TrimsToEmpty(s) == \A k \in 1..Len(s) : s[k] \in Whitespace

\* options?.tagConversionFormat || 'inline-code'
TagFormatOf(options) ==
    IF "tagConversionFormat" \in DOMAIN options
    THEN options.tagConversionFormat ELSE "inline-code"

\* The token of the backquote character.
Backtick == "<backtick>"

\* The text that replaces a tag, by format.
ConvertedTag(tagName, format) ==
    IF format = "bold-labels"
    THEN <<"*", "*", "Tag", ":", "*", "*", " ">> \o tagName
    ELSE IF format = "plain-text" THEN tagName
    ELSE <<Backtick>> \o tagName \o <<Backtick>>

\* The while loop of convertTags: a tag with nothing but white space
\* before it on its line is skipped; any other is replaced, by its text, in
\* the content converted so far.
RECURSIVE TagLoop(_, _, _, _)
TagLoop(text, from, options, acc) ==
    LET i == FirstAtOrAfter({k \in 1..Len(text) : TagAt(text, k).end # 0}, from)
    IN  IF i = 0 THEN acc
        ELSE LET m == TagAt(text, i)
                 originalText == SubSeq(text, m.tag, m.end)
                 tagName == Tail(originalText)
                 beforeTag == SubSeq(text, LineStart(text, i), m.tag - 1)
                 convertedText == ConvertedTag(tagName, TagFormatOf(options))
             IN  IF TrimsToEmpty(beforeTag)
                 THEN TagLoop(text, m.end + 1, options, acc)
                 ELSE IF options.compatibilityMode = "strict"
                 THEN TagLoop(text, m.end + 1, options,
                          [acc EXCEPT
                              !.convertedContent =
                                  StringReplace(@, originalText, <<>>),
                              !.removedElements =
                                  Append(@, <<"Tag", ":", " ">> \o originalText)])
                 ELSE TagLoop(text, m.end + 1, options,
                          [acc EXCEPT
                              !.convertedContent =
                                  StringReplace(@, originalText, convertedText),
                              !.changedElements =
                                  Append(@, Changed(originalText, convertedText,
                                                    "tag"))])

ConvertTags(text, options) ==
    IF ~options.convertTags THEN NewResult(text)
    ELSE IF options.compatibilityMode = "github-native"
    THEN [NewResult(text) EXCEPT !.warnings =
             <<Warning("Tags preserved in original format for GitHub Gist compatibility", 0)>>]
    ELSE LET looped == TagLoop(text, 1, options, NewResult(text))
             n == Len(looped.changedElements) + Len(looped.removedElements)
         IN  IF n = 0 THEN looped
             ELSE [looped EXCEPT !.warnings =
                      <<[text |-> "Processed tags", count |-> n,
                         format |-> TagFormatOf(options)]>>]

(***************************************************************************)
(* Callouts.                                                               *)
(***************************************************************************)
\* The class [\w\-].
CalloutTypeChars == Words \cup {"-"}

\* The end of the header >\s*\[![\w\-]+\] that starts at i, 0 for none,
\* with the positions of its type.
CalloutHeaderAt(s, i) ==
    LET w == ClassEnd(s, i + 1, Whitespace)
        t == ClassEnd(s, w + 3, CalloutTypeChars)
    IN  IF /\ At(s, i) = ">" /\ At(s, w + 1) = "[" /\ At(s, w + 2) = "!"
           /\ t >= w + 3 /\ At(s, t + 1) = "]"
        THEN [end |-> t + 1, type |-> SubSeq(s, w + 3, t)]
        ELSE NoMatch

\* The detector />\s*\[![\w\-]+\]/.
DetectCallouts(s) == \E i \in 1..Len(s) : CalloutHeaderAt(s, i).end # 0

\* The end of ((?:>.*\n?)*) started at i: the lines that start with >,
\* each with its line break.
RECURSIVE QuotedLinesEnd(_, _)
QuotedLinesEnd(s, i) ==
    IF At(s, i) # ">" THEN i - 1
    ELSE LET e == RunEnd(s, i + 1, {"\n"})
         IN  IF At(s, e + 1) = "\n" THEN QuotedLinesEnd(s, e + 2) ELSE e

\* calloutRegex />\s*\[!([\w\-]+)\](?:\s+([^\n]*?))?\n?((?:>.*\n?)*)/gm at
\* position i.  The title group is lazy and nothing after it can fail, so
\* it matches the empty text; the white space before it is greedy and
\* takes the line break too.
CalloutAt(s, i) ==
    LET h == CalloutHeaderAt(s, i)
    IN  IF h.end = 0 THEN NoMatch
        ELSE LET w == ClassEnd(s, h.end + 1, Whitespace)
                 e == QuotedLinesEnd(s, w + 1)
             IN  [end |-> e, type |-> h.type, title |-> <<>>,
                  content |-> SubSeq(s, w + 1, e)]

\* String.prototype.toLowerCase, on the words that have upper case.
ToLowerCase(s) ==
    [k \in 1..Len(s) |->
        CASE s[k] \in {"NOTE", "Note"} -> "note"
          [] s[k] = "Heads" -> "heads"
          [] s[k] = "Tag" -> "tag"
          [] s[k] = "Math" -> "math"
          [] OTHER -> s[k]]

\* calloutEmojis[calloutType] || the page emoji; a token stands for the
\* emoji.
CalloutEmoji(type) ==
    CASE type = <<"note">> -> ":memo:"
      [] type = <<"warning">> -> ":warning:"
      [] OTHER -> ":page:"

\* The text that replaces a callout.
ConvertedCallout(m, options) ==
    LET calloutType == ToLowerCase(m.type)
        title == IF m.title # <<>> THEN m.title ELSE calloutType
    IN  IF options.compatibilityMode = "strict"
        THEN <<">", " ", "*", "*">> \o title \o <<"*", "*", "\n">> \o m.content
        ELSE <<">", " ", CalloutEmoji(calloutType), " ", "*", "*">> \o title
                 \o <<"*", "*", "\n">> \o m.content

\* The while loop of convertCallouts.
RECURSIVE CalloutLoop(_, _, _, _)
CalloutLoop(text, from, options, acc) ==
    LET i == FirstAtOrAfter({k \in 1..Len(text) : CalloutAt(text, k).end # 0},
                            from)
    IN  IF i = 0 THEN acc
        ELSE LET m == CalloutAt(text, i)
                 originalText == SubSeq(text, i, m.end)
                 convertedText == ConvertedCallout(m, options)
             IN  CalloutLoop(text, m.end + 1, options,
                     [acc EXCEPT
                         !.convertedContent =
                             StringReplace(@, originalText, convertedText),
                         !.changedElements =
                             Append(@, Changed(originalText, convertedText,
                                               "callout"))])

ConvertCallouts(text, options) ==
    IF ~options.convertCallouts THEN NewResult(text)
    ELSE LET looped == CalloutLoop(text, 1, options, NewResult(text))
             n == Len(looped.changedElements)
         IN  IF n = 0 THEN looped
             ELSE [looped EXCEPT !.warnings =
                      <<Warning("Converted callouts to blockquotes with emoji indicators", n)>>]

(***************************************************************************)
(* Math.                                                                   *)
(***************************************************************************)
\* String.prototype.trim
RECURSIVE TrimText(_)
TrimText(s) ==
    IF s = <<>> THEN s
    ELSE IF Head(s) \in Whitespace THEN TrimText(Tail(s))
    ELSE IF s[Len(s)] \in Whitespace THEN TrimText(SubSeq(s, 1, Len(s) - 1))
    ELSE s

\* A lazy block between two doubled delimiters, as /\$\$([\s\S]*?)\$\$/
\* and /%%[\s\S]*?%%/, at position i: it ends at the nearest closing pair.
FencedAt(s, i, mark) ==
    LET closings == {j \in (i + 2)..Len(s) : s[j] = mark /\ At(s, j + 1) = mark}
    IN  IF At(s, i) = mark /\ At(s, i + 1) = mark /\ closings # {}
        THEN [end |-> (CHOOSE j \in closings : \A k \in closings : j <= k) + 1]
        ELSE NoMatch

\* inlineMathRegex /\$([^$\n]+)\$/ at position i.
InlineMathAt(s, i) ==
    LET r == RunEnd(s, i + 1, {"$", "\n"})
    IN  IF At(s, i) = "$" /\ r >= i + 1 /\ At(s, r + 1) = "$"
        THEN [end |-> r + 1] ELSE NoMatch

\* The detector /\$\$[\s\S]*?\$\$|\$[^$\n]+\$/.
DetectMath(s) ==
    \E i \in 1..Len(s) : FencedAt(s, i, "$").end # 0 \/ InlineMathAt(s, i).end # 0

\* The opening and the closing line of a fenced code block.
Fence(label) == <<Backtick, Backtick, Backtick>> \o label

\* The first while loop of convertMath, over the blocks of the content it
\* was given.
RECURSIVE MathBlockLoop(_, _, _, _)
MathBlockLoop(text, from, options, acc) ==
    LET i == FirstAtOrAfter({k \in 1..Len(text) : FencedAt(text, k, "$").end # 0},
                            from)
    IN  IF i = 0 THEN acc
        ELSE LET m == FencedAt(text, i, "$")
                 originalText == SubSeq(text, i, m.end)
                 mathContent == TrimText(SubSeq(text, i + 2, m.end - 2))
                 convertedText == Fence(<<"math", "\n">>) \o mathContent
                                      \o <<"\n">> \o Fence(<<>>)
             IN  MathBlockLoop(text, m.end + 1, options,
                     IF options.handleMath = "remove"
                     THEN [acc EXCEPT
                              !.convertedContent = StringReplace(@, originalText, <<>>),
                              !.removedElements =
                                  Append(@, <<"Math block: ">> \o originalText
                                                \o <<"...">>)]
                     ELSE IF options.handleMath = "convert"
                     THEN [acc EXCEPT
                              !.convertedContent =
                                  StringReplace(@, originalText, convertedText),
                              !.changedElements =
                                  Append(@, Changed(originalText, convertedText,
                                                    "math-block"))]
                     ELSE acc)

\* The second while loop of convertMath.  exec is given the content
\* converted so far at every turn, and resumes where the previous match
\* ended in the content of the previous turn.
RECURSIVE InlineMathLoop(_, _, _)
InlineMathLoop(from, options, acc) ==
    LET text == acc.convertedContent
        i == FirstAtOrAfter({k \in 1..Len(text) : InlineMathAt(text, k).end # 0},
                            from)
    IN  IF i = 0 THEN acc
        ELSE LET m == InlineMathAt(text, i)
                 originalText == SubSeq(text, i, m.end)
                 mathContent == TrimText(SubSeq(text, i + 1, m.end - 1))
                 convertedText == <<Backtick>> \o mathContent \o <<Backtick>>
             IN  InlineMathLoop(m.end + 1, options,
                     IF options.handleMath = "remove"
                     THEN [acc EXCEPT
                              !.convertedContent =
                                  StringReplace(@, originalText, mathContent),
                              !.removedElements =
                                  Append(@, <<"Inline math: ">> \o originalText)]
                     ELSE IF options.handleMath = "convert"
                     THEN [acc EXCEPT
                              !.convertedContent =
                                  StringReplace(@, originalText, convertedText),
                              !.changedElements =
                                  Append(@, Changed(originalText, convertedText,
                                                    "math-inline"))]
                     ELSE acc)

ConvertMath(text, options) ==
    LET looped == InlineMathLoop(1, options,
                      MathBlockLoop(text, 1, options, NewResult(text)))
        totalMathElements ==
            Len(looped.changedElements) + Len(looped.removedElements)
    IN  IF totalMathElements = 0 THEN looped
        ELSE [looped EXCEPT !.warnings =
                 IF options.compatibilityMode = "github-native"
                 THEN <<Warning("Mathematical expressions preserved for GitHub native rendering", 0)>>
                 ELSE <<Warning("Processed mathematical expressions", totalMathElements)>>]

(***************************************************************************)
(* Plugin content.  No token spells mermaid, dataview, ad- or query, so    *)
(* the detector and the loops over fenced code blocks find nothing in a    *)
(* text; the comments %%...%% are what the converter rewrites.             *)
(***************************************************************************)
\* The detector: /```(?:mermaid|dataview|ad-|query)/ or /%%[\s\S]*?%%/.
DetectPluginContent(s) == \E i \in 1..Len(s) : FencedAt(s, i, "%").end # 0

\* options?.commentConversionFormat || 'html-comments'
CommentFormatOf(options) ==
    IF "commentConversionFormat" \in DOMAIN options
    THEN options.commentConversionFormat ELSE "html-comments"

\* The text that replaces a comment outside strict mode.
ConvertedComment(commentContent, options) ==
    IF options.compatibilityMode = "github-native"
    THEN IF CommentFormatOf(options) = "html-comments"
         THEN <<"<", "!", "-", "-", " ">> \o commentContent
                  \o <<" ", "-", "-", ">">>
         ELSE <<"*", "[">> \o commentContent \o <<"]", "*">>
    ELSE <<"*", "[", "Note", ":", " ">> \o commentContent \o <<"]", "*">>

\* The while loop over the comments; exec is given the content converted
\* so far at every turn.
RECURSIVE CommentLoop(_, _, _)
CommentLoop(from, options, acc) ==
    LET text == acc.convertedContent
        i == FirstAtOrAfter({k \in 1..Len(text) : FencedAt(text, k, "%").end # 0},
                            from)
    IN  IF i = 0 THEN acc
        ELSE LET m == FencedAt(text, i, "%")
                 originalText == SubSeq(text, i, m.end)
                 commentContent == TrimText(SubSeq(text, i + 2, m.end - 2))
                 convertedText == ConvertedComment(commentContent, options)
             IN  CommentLoop(m.end + 1, options,
                     IF options.compatibilityMode = "strict"
                     THEN [acc EXCEPT
                              !.convertedContent = StringReplace(@, originalText, <<>>),
                              !.removedElements = Append(@, <<"Obsidian comment">>)]
                     ELSE [acc EXCEPT
                              !.convertedContent =
                                  StringReplace(@, originalText, convertedText),
                              !.changedElements =
                                  Append(@, Changed(originalText, convertedText,
                                                    "comment"))])

ConvertPluginContent(text, options) ==
    LET mermaid ==
            IF options.compatibilityMode # "github-native" THEN NewResult(text)
            ELSE [NewResult(text) EXCEPT !.warnings =
                     <<Warning("Mermaid diagrams preserved for GitHub native rendering", 0)>>]
        looped == CommentLoop(1, options, mermaid)
        totalPluginElements ==
            Len(looped.changedElements) + Len(looped.removedElements)
    IN  IF totalPluginElements = 0 THEN looped
        ELSE [looped EXCEPT !.warnings = Append(@,
                 Warning("Processed plugin-specific elements that may not render correctly in GitHub Gist",
                         totalPluginElements))]

(***************************************************************************)
(* The registry of variants and convertContent.                            *)
(***************************************************************************)
Variants ==
    <<"Obsidian Wikilinks", "Obsidian Image Wikilinks", "Obsidian Tags",
      "Obsidian Callouts", "Math Expressions", "Plugin Content">>

\* variant.detector(content), of the k-th variant
Detector(k, s) ==
    CASE k = 1 -> DetectWikilinks(s)
      [] k = 2 -> DetectImageWikilinks(s)
      [] k = 3 -> DetectTags(s)
      [] k = 4 -> DetectCallouts(s)
      [] k = 5 -> DetectMath(s)
      [] k = 6 -> DetectPluginContent(s)

\* variant.converter(content, options), of the k-th variant
Converter(k, s, options) ==
    CASE k = 1 -> ConvertWikilinks(s, options)
      [] k = 2 -> ConvertImageWikilinks(s, options)
      [] k = 3 -> ConvertTags(s, options)
      [] k = 4 -> ConvertCallouts(s, options)
      [] k = 5 -> ConvertMath(s, options)
      [] k = 6 -> ConvertPluginContent(s, options)

\* The body of the guarded block that keeps the warnings of the last
\* converter only.
MergedKeepingLast(acc, conversionResult) ==
    [convertedContent |-> conversionResult.convertedContent,
     warnings |-> conversionResult.warnings,
     removedElements |->
         acc.removedElements \o conversionResult.removedElements,
     changedElements |->
         acc.changedElements \o conversionResult.changedElements]

\* A turn of the for loop that keeps the warnings of the last converter only.
FoldVariantKeepingLast(k, acc, options) ==
    IF ~Detector(k, acc.convertedContent) THEN acc
    ELSE MergedKeepingLast(acc, Converter(k, acc.convertedContent, options))

\* The body of the guarded block: the content is replaced by the converter's
\* and the three lists of the converter are pushed onto the accumulated ones.
Merged(acc, conversionResult) ==
    [convertedContent |-> conversionResult.convertedContent,
     warnings |-> acc.warnings \o conversionResult.warnings,
     removedElements |->
         acc.removedElements \o conversionResult.removedElements,
     changedElements |->
         acc.changedElements \o conversionResult.changedElements]

\* A turn of the for loop of convertContent, for the k-th variant.
FoldVariant(k, acc, options) ==
    IF ~Detector(k, acc.convertedContent) THEN acc
    ELSE Merged(acc, Converter(k, acc.convertedContent, options))

\* The turns of the for loop from the k-th variant on.
RECURSIVE ConvertFrom(_, _, _)
ConvertFrom(k, acc, options) ==
    IF k > Len(Variants) THEN acc
    ELSE ConvertFrom(k + 1, FoldVariant(k, acc, options), options)

ConvertContent(text, options) == ConvertFrom(1, NewResult(text), options)

\* The texts made of at most n of the pieces.
RECURSIVE Flatten(_)
Flatten(pieces) ==
    IF pieces = <<>> THEN <<>> ELSE Head(pieces) \o Flatten(Tail(pieces))

TextsOf(Pieces, n) == {Flatten(p) : p \in SeqsOf(Pieces, 0, n)}

(***************************************************************************)
(* prepareContentForPublishing.                                            *)
(***************************************************************************)
\* fileName.replace(/\.[^/.]+$/, ''): the last dot and what follows it go,
\* when something other than a slash follows it.
FileNameWithoutSuffix(fileName) ==
    LET dots == {k \in 1..Len(fileName) : fileName[k] = "."}
        last == CHOOSE k \in dots : \A j \in dots : j <= k
    IN  IF dots = {} THEN fileName
        ELSE IF last = Len(fileName) THEN fileName
        ELSE IF \E k \in (last + 1)..Len(fileName) : fileName[k] = "/"
        THEN fileName
        ELSE SubSeq(fileName, 1, last - 1)

\* `# ${fileNameWithoutSuffix}\n\n`
Header(fileName) ==
    <<"#", " ">> \o FileNameWithoutSuffix(fileName) \o <<"\n", "\n">>

\* The frontmatter that the payload shows.
ShownFrontmatter(doc, s) ==
    LET parsed == ParseFrontmatter(doc)
    IN  IF s.showFrontmatter /\ parsed.hasFrontmatter
        THEN parsed.frontmatter ELSE <<>>

\* The converted body of the document.
ConversionOf(doc, s) ==
    ConvertContent(ParseFrontmatter(doc).content, ConversionOptionsOf(s))

\* A payload that starts with the heading.
PrepareHeadingFirst(doc, fileName, s) ==
    Header(fileName) \o ShownFrontmatter(doc, s)
        \o ConversionOf(doc, s).convertedContent

\* The text that prepareContentForPublishing returns.
PrepareContentForPublishing(doc, fileName, s) ==
    ShownFrontmatter(doc, s) \o Header(fileName)
        \o ConversionOf(doc, s).convertedContent

\* The notice shown for a conversion result: none unless the report is on,
\* there are warnings and something was changed or removed.
NoticeOf(conversionResult, s) ==
    IF /\ s.showCompatibilityReport
       /\ Len(conversionResult.warnings) > 0
       /\ Len(conversionResult.changedElements)
              + Len(conversionResult.removedElements) > 0
    THEN <<"Applied compatibility conversions for GitHub Gist">>
    ELSE <<>>

\* The notice of prepareContentForPublishing.
ConversionNotice(doc, s) == NoticeOf(ConversionOf(doc, s), s)

MaxParts == 4

\* The parts of a document: a delimiter line, a field line, a line of the
\* body with a wikilink, the last line with a tag.
DocParts ==
    {<<Dashes, Newline>>, <<Text, Newline>>,
     <<"[", "[", "page", "|", "alias", "]", "]", Newline>>,
     <<Text, Space, "#", Text>>}

FileNames == {<<"page", ".", "md">>, <<"page">>, <<"x", ".", "page", ".", "md">>}

PublishSettings ==
    {[DEFAULT_SETTINGS EXCEPT !.showFrontmatter = show,
                              !.compatibilityMode = mode,
                              !.showCompatibilityReport = report] :
        show \in BOOLEAN, mode \in CompatibilityModes, report \in BOOLEAN}

InitPayload ==
    /\ \E s \in PublishSettings : AtRestWith(s)
    /\ content \in [doc : TextsOf(DocParts, MaxParts), fileName : FileNames]
    /\ result = <<>>

\* prepareContentForPublishing is called on the document.
PrepareContent ==
    /\ result = <<>>
    /\ result' = PrepareContentForPublishing(content.doc, content.fileName,
                                             settings)
    /\ notices' = ConversionNotice(content.doc, settings)
    /\ UNCHANGED <<content, settings, saved, isPublishing, adaptiveDebounce,
                   timeoutId, timers, reenable, docs, pub, pull, syncs>>

NextPayload == PrepareContent

SpecPayload == InitPayload /\ [][NextPayload]_vars

\* The payload is made of the three parts, in this order.
InOrder(first, second, third) == result = first \o second \o third

\* The parts of the payload of the document.
Heading == <<"#", " ">> \o FileNameWithoutSuffix(content.fileName) \o <<"\n", "\n">>
Block == ShownFrontmatter(content.doc, settings)
ConvertedBody == ConversionOf(content.doc, settings).convertedContent

\* C15, as stated: the payload consists, in this order, of the heading
\* "# <name without extension>", then the frontmatter block (only when the
\* display of the frontmatter is enabled and the document has one), then
\* the converted body.
C15_HeadingThenFrontmatter ==
    result # <<>> => InOrder(Heading, Block, ConvertedBody)

\* C15, amended: the payload consists, in this order, of the frontmatter
\* block (only when the display of the frontmatter is enabled and the
\* document has one), then the heading "# <name without extension>" and a
\* blank line, then the converted body.
C15_FrontmatterThenHeading ==
    result # <<>> =>
        /\ InOrder(Block, Heading, ConvertedBody)
        /\ Block # <<>> <=>
               settings.showFrontmatter /\ ParseFrontmatter(content.doc).hasFrontmatter

\* A document with a field and a wikilink, published under the name
\* page.md with the frontmatter shown: the block, the heading, the link.
C15_Witness ==
    /\ content.doc = <<Dashes, Newline, Text, Newline, Dashes, Newline,
                       "[", "[", "page", "|", "alias", "]", "]", Newline>>
    /\ settings.showFrontmatter /\ settings.compatibilityMode = "permissive"
    /\ result = <<Dashes, Newline, Text, Newline, Dashes, Newline,
                  "#", " ", "page", "\n", "\n",
                  "*", "*", "alias", "*", "*", "\n">>

(***************************************************************************)
(* analyzeContent.                                                         *)
(***************************************************************************)
\* A percentage that is cut, not rounded.
FloorPercent(num, den) == (100 * num) \div den

\* Math.round((num / den) * 100), for num >= 0 and den > 0
RoundPercent(num, den) == (200 * num + den) \div (2 * den)

\* calculateCompatibilityScore
CalculateCompatibilityScore(detectedVariants) ==
    LET totalVariants == Len(Variants)
        incompatibleVariants == Len(detectedVariants)
        rounded == RoundPercent(totalVariants - incompatibleVariants,
                                totalVariants)
    IN  IF rounded > 0 THEN rounded ELSE 0

\* The names of the variants from the k-th on whose detector matches.
RECURSIVE DetectFrom(_, _)
DetectFrom(k, text) ==
    IF k > Len(Variants) THEN <<>>
    ELSE (IF Detector(k, text) THEN <<Variants[k]>> ELSE <<>>)
             \o DetectFrom(k + 1, text)

\* generateRecommendations
GenerateRecommendations(detectedVariants) ==
    LET detected == {detectedVariants[k] : k \in 1..Len(detectedVariants)}
        Advice(name, text) == IF name \in detected THEN <<text>> ELSE <<>>
    IN  Advice("Obsidian Wikilinks",
               "Convert wikilinks to standard Markdown links for better compatibility")
        \o Advice("Obsidian Callouts",
                  "Convert callouts to standard blockquotes with emoji indicators")
        \o Advice("Math Expressions",
                  "Consider converting math expressions to code blocks or images")
        \o Advice("Plugin Content",
                  "Plugin-specific content may not render correctly in GitHub Gist")

AnalyzeContent(text) ==
    LET detectedVariants == DetectFrom(1, text)
    IN  [detectedVariants |-> detectedVariants,
         conversionResults |-> NewResult(text),
         compatibilityScore |-> CalculateCompatibilityScore(detectedVariants),
         recommendations |-> GenerateRecommendations(detectedVariants)]

MaxAnalyzed == 5

\* The parts of an analyzed text: a wikilink, an image embed, a tag, a
\* callout, inline math, a comment and a word.
AnalyzedParts ==
    {<<"[", "[", "page", "]", "]">>,
     <<"!", "[", "[", "img", ".", "png", "]", "]">>,
     <<"#", "x">>,
     <<">", " ", "[", "!", "note", "]">>,
     <<"$", "x", "$">>,
     <<"%", "%", "x", "%", "%">>,
     <<"x", "\n">>}

InitAnalysis ==
    /\ AtRest
    /\ content \in TextsOf(AnalyzedParts, MaxAnalyzed)
    /\ result = <<>>

\* analyzeContent is called on the text.
CallAnalyzeContent ==
    /\ result = <<>>
    /\ result' = AnalyzeContent(content)
    /\ UNCHANGED <<content, schedVars>>

NextAnalysis == CallAnalyzeContent

SpecAnalysis == InitAnalysis /\ [][NextAnalysis]_vars

\* The distance between two integers.
Distance(a, b) == IF a >= b THEN a - b ELSE b - a

\* C16: for every set of detected categories the score is the integer
\* nearest to 100 * (total - |detected|) / total, total being the number of
\* categories of the registry; it lies in 0..100, is 100 when nothing is
\* detected and 0 when every category is.
C16_ScoreIsRoundedShare ==
    result # <<>> =>
        LET total == Len(Variants)
            detected == {k \in 1..total : Detector(k, content)}
            score == result.compatibilityScore
        IN  /\ Len(result.detectedVariants) = Cardinality(detected)
            /\ score \in 0..100
            /\ 2 * Distance(score * total, 100 * (total - Cardinality(detected)))
                   < total
            /\ detected = {} => score = 100
            /\ detected = 1..total => score = 0

\* Five of the six categories are detected in an image embed, a tag, a
\* callout and inline math: 100 / 6 is rounded up to 17.
C16_Witness ==
    /\ result # <<>>
    /\ Len(result.detectedVariants) = 5
    /\ result.compatibilityScore = 17

(***************************************************************************)
(* convertContent, turn by turn.  The result holds the position k in the   *)
(* registry, the ConversionResult accumulated so far and, as a history,    *)
(* the names of the variants whose converter was called.                   *)
(***************************************************************************)
MaxPieces == 3

\* The pieces of a converted text: a wikilink to a heading with an alias,
\* an image embed, a tag after a word, a tag, a callout header, a block of
\* math that holds a comment, inline math, a comment, a line break.
ConvertedPieces ==
    {<<"[", "[", "#", "x", "|", "alias", "]", "]">>,
     <<"!", "[", "[", "img", ".", "png", "]", "]">>,
     <<"x", " ", "#", "x">>,
     <<"#", "x">>,
     <<">", " ", "[", "!", "note", "]">>,
     <<"$", "$", "%", "%", "x", "%", "%", "$", "$">>,
     <<"$", "x", "$">>,
     <<"%", "%", "x", "%", "%">>,
     <<"\n">>}

OptionChoices ==
    [compatibilityMode : CompatibilityModes,
     preserveWikilinks : BOOLEAN,
     convertTags : BOOLEAN,
     convertCallouts : BOOLEAN,
     handleMath : {"remove", "convert", "preserve"},
     handlePluginContent : {"convert"}]

InitConvert ==
    /\ AtRest
    /\ content \in [text : TextsOf(ConvertedPieces, MaxPieces),
                    options : OptionChoices]
    /\ result = [k |-> 1, acc |-> NewResult(content.text), invoked |-> <<>>]

\* A turn of the for loop on a variant whose detector matches.
ConverterInvoked ==
    /\ result.k <= Len(Variants)
    /\ Detector(result.k, result.acc.convertedContent)
    /\ result' = [k |-> result.k + 1,
                  acc |-> FoldVariant(result.k, result.acc, content.options),
                  invoked |-> Append(result.invoked, Variants[result.k])]
    /\ UNCHANGED <<content, schedVars>>

\* A turn of the for loop on a variant whose detector does not match.
VariantSkipped ==
    /\ result.k <= Len(Variants)
    /\ ~Detector(result.k, result.acc.convertedContent)
    /\ result' = [result EXCEPT !.k = @ + 1]
    /\ UNCHANGED <<content, schedVars>>

NextConvert == ConverterInvoked \/ VariantSkipped

SpecConvert == InitConvert /\ [][NextConvert]_vars

\* The names in invoked are those of variants before the k-th, each at most
\* once and in the order of the registry.
InRegistryOrder(invoked, k) ==
    \E positions \in SUBSET (1..(k - 1)) :
        /\ Len(invoked) = Cardinality(positions)
        /\ \A i \in 1..Len(invoked) :
               \E p \in positions :
                   /\ invoked[i] = Variants[p]
                   /\ Cardinality({q \in positions : q < p}) = i - 1

\* A turn takes the next variant of the registry; its converter is called
\* exactly when its detector matches the content as rewritten so far, and
\* then what it returns is appended to what was accumulated.
TurnFolds ==
    LET k == result.k
        before == result.acc
        after == result'.acc
        rewritten == before.convertedContent
        returned == Converter(k, rewritten, content.options)
    IN  /\ result'.k = k + 1
        /\ IF Detector(k, rewritten)
           THEN /\ result'.invoked = Append(result.invoked, Variants[k])
                /\ after.convertedContent = returned.convertedContent
                /\ after.warnings = before.warnings \o returned.warnings
                /\ after.removedElements =
                       before.removedElements \o returned.removedElements
                /\ after.changedElements =
                       before.changedElements \o returned.changedElements
           ELSE /\ result'.invoked = result.invoked
                /\ after = before

C17_RegistryOrder ==
    /\ result.k \in 1..(Len(Variants) + 1)
    /\ InRegistryOrder(result.invoked, result.k)
    /\ result.k = Len(Variants) + 1 =>
           result.acc = ConvertContent(content.text, content.options)

\* C17: convertContent goes through the registry once, in its order; the
\* converter of a category is called, at most once, exactly when its
\* detector matches the content as rewritten by the earlier categories;
\* the warnings, removed elements and changed elements it returns are
\* appended to those accumulated, none of which is dropped; a category
\* whose detector does not match adds nothing.
C17_FoldsInRegistryOrder == []C17_RegistryOrder /\ [][TurnFolds]_vars

\* The link [[#x|alias]] in strict mode: the tag detector matches the
\* input, the wikilink converter leaves the alias only, and the tag
\* converter is not called.
C17_Witness ==
    /\ content.text = <<"[", "[", "#", "x", "|", "alias", "]", "]">>
    /\ content.options.compatibilityMode = "strict"
    /\ result.k = Len(Variants) + 1
    /\ Detector(3, content.text)
    /\ result.invoked = <<"Obsidian Wikilinks">>
    /\ result.acc.convertedContent = <<"alias">>
    /\ Len(result.acc.warnings) = 1

\* C18: every category converter is idempotent under unchanged options:
\* what a converter returns for a content does not satisfy the detector of
\* its own category, so that applying the converter a second time finds
\* nothing further to convert.
C18_ConvertersIdempotent ==
    [][LET k == result.k
           output == result'.acc.convertedContent
       IN  Detector(k, result.acc.convertedContent) =>
               /\ ~Detector(k, output)
               /\ Converter(k, output, content.options) = NewResult(output)]_vars

(***************************************************************************)
(* convertTags, on the texts made of the characters #, x, space and line   *)
(* break.                                                                  *)
(***************************************************************************)
MaxChars == 6

TagOptionChoices ==
    {[compatibilityMode |-> mode, preserveWikilinks |-> FALSE,
      convertTags |-> TRUE, convertCallouts |-> FALSE,
      handleMath |-> "preserve", handlePluginContent |-> "convert",
      tagConversionFormat |-> format] :
        mode \in CompatibilityModes,
        format \in {"inline-code", "bold-labels", "plain-text"}}
    \cup {ConversionOptionsOf([DEFAULT_SETTINGS EXCEPT !.compatibilityMode = mode]) :
              mode \in CompatibilityModes}

InitTags ==
    /\ AtRest
    /\ content \in [text : SeqsOf({"#", "x", " ", "\n"}, 0, MaxChars),
                    options : TagOptionChoices]
    /\ result = <<>>

\* convertTags is called on the text.
CallConvertTags ==
    /\ result = <<>>
    /\ result' = ConvertTags(content.text, content.options)
    /\ UNCHANGED <<content, schedVars>>

NextTags == CallConvertTags

SpecTags == InitTags /\ [][NextTags]_vars

\* The text from position from on, with every tag that has other text
\* before it on its line converted where it stands (deleted in strict
\* mode), and every tag that begins its line, white space aside, left as
\* it is.
RECURSIVE TagsConvertedInPlace(_, _, _)
TagsConvertedInPlace(text, from, options) ==
    LET i == FirstAtOrAfter({k \in 1..Len(text) : TagAt(text, k).end # 0}, from)
    IN  IF i = 0 THEN SubSeq(text, from, Len(text))
        ELSE LET m == TagAt(text, i)
                 tag == SubSeq(text, m.tag, m.end)
                 beginsLine == TrimsToEmpty(SubSeq(text, LineStart(text, i),
                                                   m.tag - 1))
                 converted ==
                     IF options.compatibilityMode = "strict" THEN <<>>
                     ELSE ConvertedTag(Tail(tag), TagFormatOf(options))
             IN  SubSeq(text, from, m.tag - 1)
                     \o (IF beginsLine THEN tag ELSE converted)
                     \o TagsConvertedInPlace(text, m.end + 1, options)

\* C19: with the conversion of tags enabled under a policy other than
\* github-native, for every input, those where the same tag text occurs
\* several times included, each tag that begins its line after trimming is
\* left unconverted in the output and each tag preceded by other text on
\* its line is converted (the inline-code format gives the tag name
\* between backquotes).
C19_LineStartKeptOthersConverted ==
    (result # <<>> /\ content.options.compatibilityMode # "github-native") =>
        result.convertedContent =
            TagsConvertedInPlace(content.text, 1, content.options)

(***************************************************************************)
(* convertCallouts.                                                        *)
(***************************************************************************)
MaxCalloutParts == 4

\* The parts of a text with callouts: two headers, a title after a space,
\* a line break, a quoted line.
CalloutParts ==
    {<<">", " ", "[", "!", "warning", "]">>,
     <<">", " ", "[", "!", "NOTE", "]">>,
     <<" ", "Heads", " ", "up">>,
     <<"\n">>,
     <<">", " ", "details">>}

CalloutOptionChoices ==
    {[ConversionOptionsOf(DEFAULT_SETTINGS) EXCEPT
          !.compatibilityMode = mode, !.convertCallouts = enabled] :
        mode \in CompatibilityModes, enabled \in BOOLEAN}

InitCallouts ==
    /\ AtRest
    /\ content \in [text : TextsOf(CalloutParts, MaxCalloutParts),
                    options : CalloutOptionChoices]
    /\ result = <<>>

\* convertCallouts is called on the text.
CallConvertCallouts ==
    /\ result = <<>>
    /\ result' = ConvertCallouts(content.text, content.options)
    /\ UNCHANGED <<content, schedVars>>

NextCallouts == CallConvertCallouts

SpecCallouts == InitCallouts /\ [][NextCallouts]_vars

\* The text is the callout of the type with the title "Heads up" and the
\* quoted line "> details".
IsTitledCallout(text, type) ==
    text = <<">", " ", "[", "!", type, "]", " ", "Heads", " ", "up", "\n",
             ">", " ", "details">>

\* The quoted bold line of the title "Heads up" after the emoji, followed by
\* the quoted line.
TitledQuote(emoji) ==
    <<">", " ", emoji, " ", "*", "*", "Heads", " ", "up", "*", "*", "\n",
      ">", " ", "details">>

\* C20: with the conversion of callouts enabled, a callout "> [!type]
\* Title" followed by quoted lines is rewritten to a quoted line with the
\* emoji of the type and the callout's own title in bold, the quoted lines
\* following as they were: "> [!warning] Heads up\n> details" gives
\* "> (warning emoji) **Heads up**" followed by "> details".
C20_TitleCarried ==
    (/\ result # <<>>
     /\ content.options.convertCallouts
     /\ content.options.compatibilityMode # "strict") =>
        /\ IsTitledCallout(content.text, "warning") =>
               result.convertedContent = TitledQuote(":warning:")
        /\ IsTitledCallout(content.text, "NOTE") =>
               result.convertedContent = TitledQuote(":memo:")

(***************************************************************************)
(* The output formats of a publish.  The settings hold a format for the    *)
(* tags and one for the comments; the documents hold a tag after a word    *)
(* and a comment.                                                          *)
(***************************************************************************)
MaxFormatParts == 3

FormatParts ==
    {<<"x", " ", "#", "tag">>, <<"%", "%", "x", "%", "%">>, <<"\n">>}

FormatSettings ==
    {[DEFAULT_SETTINGS EXCEPT !.compatibilityMode = mode,
                              !.tagConversionFormat = tagFormat,
                              !.commentConversionFormat = commentFormat] :
        mode \in CompatibilityModes,
        tagFormat \in {"inline-code", "bold-labels", "plain-text"},
        commentFormat \in {"html-comments", "italic-text"}}

InitFormats ==
    /\ \E s \in FormatSettings : AtRestWith(s)
    /\ content \in [doc : TextsOf(FormatParts, MaxFormatParts),
                    fileName : {<<"page", ".", "md">>}]
    /\ result = <<>>

\* The user picks another format for the tags in the settings tab.
SetTagConversionFormat(format) ==
    /\ result = <<>>
    /\ format # settings.tagConversionFormat
    /\ settings' = [settings EXCEPT !.tagConversionFormat = format]
    /\ saved' = settings'
    /\ notices' = <<>>
    /\ UNCHANGED <<isPublishing, adaptiveDebounce, timeoutId, timers, reenable,
                   docs, pub, pull, syncs>>
    /\ UNCHANGED textVars

NextFormats ==
    \/ \E format \in {"inline-code", "bold-labels", "plain-text"} :
           SetTagConversionFormat(format)
    \/ PrepareContent

SpecFormats == InitFormats /\ [][NextFormats]_vars

\* The options of a conversion that carry the three formats of the settings.
OptionsWithFormats(s) ==
    [compatibilityMode |-> s.compatibilityMode,
     preserveWikilinks |-> s.preserveWikilinks,
     convertTags |-> s.convertTags,
     convertCallouts |-> s.convertCallouts,
     handleMath |-> s.handleMath,
     handlePluginContent |-> s.handlePluginContent,
     tagConversionFormat |-> s.tagConversionFormat,
     commentConversionFormat |-> s.commentConversionFormat,
     dataviewConversionFormat |-> s.dataviewConversionFormat]

\* C21: the text published is the one the converters give for options that
\* hold the formats of the current settings: tags and comments are rendered
\* in the tagConversionFormat and the commentConversionFormat configured.
C21_FormatsOfTheSettings ==
    result # <<>> =>
        result = ShownFrontmatter(content.doc, settings)
                     \o Header(content.fileName)
                     \o ConvertContent(ParseFrontmatter(content.doc).content,
                                       OptionsWithFormats(settings)).convertedContent

(***************************************************************************)
(* The two writers of a frontmatter field: updateFrontmatter writes the    *)
(* publish URL after a publish, preserveFrontmatterForPull writes the time *)
(* of the pull.  The time is one of two instants.                          *)
(***************************************************************************)
MaxFieldLines == 5

PulledKey == "last-pulled:"
Instants == {"2026-01-01T00:00:00.000Z", "2026-01-02T00:00:00.000Z"}
GistUrl == "https://gist.github.com/u/1"

\* The lines of the documents: the delimiter, a field, a blank line, a line
\* of spaces, the URL field and the field of an earlier pull.
FieldLines ==
    {<<Dashes>>, <<Text>>, <<>>, <<Space>>, <<Key, Space, GistUrl>>,
     <<PulledKey, Space, "2026-01-01T00:00:00.000Z">>}

\* line.startsWith('last-pulled:')
StartsWithPulledKey(line) == line # <<>> /\ Head(line) = PulledKey

\* frontmatterLines.findIndex(line => line.startsWith('last-pulled:')),
\* counted from 1; 0 when no line is found.
LastPulledIndex(lines) ==
    LET hits == {i \in DOMAIN lines : StartsWithPulledKey(lines[i])}
    IN  IF hits = {} THEN 0 ELSE CHOOSE i \in hits : \A j \in hits : i <= j

\* The lines of the block with the time of the pull written.
WithLastPulled(frontmatterLines, stamp) ==
    IF LastPulledIndex(frontmatterLines) > 0
    THEN [frontmatterLines EXCEPT ![LastPulledIndex(frontmatterLines)] =
              <<PulledKey, Space, stamp>>]
    ELSE Append(frontmatterLines, <<PulledKey, Space, stamp>>)

\* preserveFrontmatterForPull(parsed, gistContent), at the instant stamp
PreserveFrontmatterForPull(parsed, gistContent, stamp) ==
    IF ~parsed.hasFrontmatter THEN gistContent
    ELSE LET lines == Split(parsed.frontmatter)
             frontmatterLines == SubSeq(lines, 2, Len(lines) - 2)
         IN  <<Dashes, Newline>>
                 \o Join(FilterBlank(WithLastPulled(frontmatterLines, stamp)))
                 \o <<Newline, Dashes, Newline>> \o gistContent

\* parsed.frontmatter.match(
\*     /gist-publish-url:\s*https:\/\/gist\.github\.com\/.*\/(.+)/)
GistMatchText(block) ==
    \E p \in DOMAIN block :
        /\ block[p] = Key
        /\ At(block, ClassEnd(block, p + 1, Whitespace) + 1) \in Urls

InitField ==
    /\ AtRest
    /\ content \in {Join(lines) : lines \in SeqsOf(FieldLines, 1, MaxFieldLines)}
    /\ result = <<>>

\* A pull succeeds: the note is overwritten with the block of the document
\* read and the content of the gist.
PullWritten(gistContent, stamp) ==
    /\ GistMatchText(ParseFrontmatter(content).frontmatter)
    /\ content' = PreserveFrontmatterForPull(ParseFrontmatter(content),
                                             gistContent, stamp)
    /\ result' = <<stamp>>
    /\ UNCHANGED schedVars

NextField ==
    \/ \E url \in Urls : FinalizePublishing(url)
    \/ \E stamp \in Instants : PullWritten(<<Text, Newline, Text>>, stamp)

SpecField == InitField /\ [][NextField]_vars

\* The lines that hold more than spaces.
NonBlank(lines) == SelectSeq(lines, LAMBDA line : Trim(line) # <<>>)

\* The first line that starts with the key, 0 for none.
FirstWithKey(lines, key) ==
    LET hits == {i \in DOMAIN lines : lines[i] # <<>> /\ Head(lines[i]) = key}
    IN  IF hits = {} THEN 0 ELSE CHOOSE i \in hits : \A j \in hits : i <= j

\* The document after is the document before with the field written: the
\* first line that starts with the key holds the field, or the field is the
\* last line of the block when no line starts with the key; the other
\* lines that are not blank are as they were and in their order, no blank
\* line is left, and the body is the one given.
FieldWritten(before, after, key, field, body) ==
    LET kept == NonBlank(BlockLines(before))
        hit == FirstWithKey(kept, key)
    IN  /\ ParseFrontmatter(after).hasFrontmatter
        /\ BlockLines(after) = IF hit > 0 THEN [kept EXCEPT ![hit] = field]
                               ELSE Append(kept, field)
        /\ ParseFrontmatter(after).content = body

\* The writes of the time of the pull put it in place or at the end of the
\* block, and the body is the content of the gist.
PullWritesField ==
    \A stamp \in Instants :
        PullWritten(<<Text, Newline, Text>>, stamp) =>
            FieldWritten(content, content', PulledKey,
                         <<PulledKey, Space, stamp>>, <<Text, Newline, Text>>)

\* C22, as claimed: every write of a field replaces the line starting with
\* the key in place when one exists and otherwise appends the field as the
\* last line of the block; the other non-blank lines are kept in their
\* order, the blank lines are dropped and the body is unchanged.
C22_EveryWriteRewrites ==
    [][/\ \A url \in Urls :
              FinalizePublishing(url) =>
                  FieldWritten(content, content', Key, <<Key, Space, url>>,
                               ParseFrontmatter(content).content)
       /\ PullWritesField]_vars

\* The block of the document holds the URL already.
HoldsUrl(doc, url) ==
    /\ ParseFrontmatter(doc).hasFrontmatter
    /\ ExistingUrl(ParseFrontmatter(doc).frontmatter) = <<url>>

\* C22, amended: a write of the publish URL into a block that holds this
\* URL already leaves the document untouched, blank lines included; every
\* other write replaces the line starting with the key in place when one
\* exists and otherwise appends the field as the last line of the block,
\* keeps the other non-blank lines in their order, drops the blank lines
\* and leaves the body unchanged.
C22_WriteRewritesUnlessSame ==
    [][/\ \A url \in Urls :
              FinalizePublishing(url) =>
                  IF HoldsUrl(content, url) THEN content' = content
                  ELSE FieldWritten(content, content', Key,
                                    <<Key, Space, url>>,
                                    ParseFrontmatter(content).content)
       /\ PullWritesField]_vars

\* C22: a block with a blank line, a field and the URL of a gist has been
\* pulled: the blank line is gone, the field and the URL are in place and
\* the time of the pull is the last line of the block.
C22_Witness ==
    /\ result = <<"2026-01-02T00:00:00.000Z">>
    /\ BlockLines(content) =
           << <<Text>>, <<Key, Space, GistUrl>>,
              <<PulledKey, Space, "2026-01-02T00:00:00.000Z">> >>
    /\ ParseFrontmatter(content).content = <<Text, Newline, Text>>

(***************************************************************************)
(* The image embeds across convertContent.                                 *)
(***************************************************************************)
\* The end of the image embed ![[target]] that starts at position i, 0 when
\* none starts there.
ImageEmbedEnd(s, i) ==
    IF /\ At(s, i) = "!" /\ At(s, i + 1) = "[" /\ At(s, i + 2) = "["
       /\ RunEnd(s, i + 3, {"]"}) >= i + 3
       /\ At(s, RunEnd(s, i + 3, {"]"}) + 1) = "]"
       /\ At(s, RunEnd(s, i + 3, {"]"}) + 2) = "]"
    THEN RunEnd(s, i + 3, {"]"}) + 2
    ELSE 0

\* The image embeds of the text.
ImageEmbedsOf(s) ==
    {SubSeq(s, i, ImageEmbedEnd(s, i)) : i \in {k \in 1..Len(s) : ImageEmbedEnd(s, k) # 0}}

\* C23: at every turn of the conversion, each image embed of the input
\* stands unchanged in the content converted so far, whatever the options.
C23_ImageEmbedsKept ==
    \A embed \in ImageEmbedsOf(content.text) :
        IndexOf(result.acc.convertedContent, embed) # 0

(***************************************************************************)
(* Properties of the publishing flag.                                      *)
(***************************************************************************)
\* The flag is set exactly while a manual publish is in flight.
FlagWhileInFlight == isPublishing <=> pub.pc = "remote"

\* A command issued while the flag is set is refused and starts nothing; a
\* command that returns for want of an active file or of valid settings
\* leaves the flag down; a command that passes the validation raises the
\* flag; the response and the failure of the request lower it.
PublishStepsKeepFlag ==
    /\ \A active \in Docs \cup {NoFile} :
           PublishCmd(active) =>
               IF isPublishing
               THEN /\ isPublishing' /\ pub' = pub
                    /\ docs' = docs /\ syncs' = syncs /\ pull' = pull
                    /\ notices' = <<"Publishing already in progress">>
               ELSE IF active = NoFile \/ ValidateSettings(settings) # ""
               THEN ~isPublishing' /\ pub' = pub /\ docs' = docs
               ELSE isPublishing' /\ pub' = [pc |-> "remote", file |-> active]
    /\ \A headers \in Headers :
           PublishOk(headers) => (~isPublishing' /\ pub' = IdlePub)
    /\ \A kind \in ErrorKinds :
           PublishFail(kind) => (~isPublishing' /\ pub' = IdlePub)
    /\ isPublishing' # isPublishing =>
           \/ \E active \in Docs : PublishCmd(active)
           \/ \E headers \in Headers : PublishOk(headers)
           \/ \E kind \in ErrorKinds : PublishFail(kind)

\* C24: the publishing flag is set exactly while a manual publish is
\* between its validation and its completion; a publish command issued
\* while it is set returns without starting a read or a request; and the
\* flag is down after a publish has succeeded, has failed, or has returned
\* before the validation passed.
C24_PublishesExclusive == []FlagWhileInFlight /\ [][PublishStepsKeepFlag]_vars

\* C24: a publish command has just been refused while the publish of
\* document A is in flight.
C24_Witness ==
    /\ isPublishing
    /\ pub = [pc |-> "remote", file |-> "A"]
    /\ notices = <<"Publishing already in progress">>

(***************************************************************************)
(* Properties of the timers.                                               *)
(***************************************************************************)
\* The step starts the request of an auto-sync.
SyncStarts == \E s \in DOMAIN syncs : syncs[s].pc = "idle" /\ syncs'[s].pc = "remote"

\* C25: while auto-sync is disabled in the settings no auto-sync starts a
\* request; a timeout armed before the disable starts none when it fires.
C25_NoSyncWhileDisabled == [][SyncStarts => settings.enableAutoSync]_vars


\* The operations that await a response of the gist API: the auto-syncs and
\* the manual publish.
InFlight ==
    Cardinality({s \in DOMAIN syncs : syncs[s].pc = "remote"})
        + (IF pub.pc = "remote" THEN 1 ELSE 0)

\* C26: at most one publish operation, auto-sync or manual publish, is in
\* flight at any time.
C26_OneInFlight == InFlight <= 1


\* C27: at most one re-enable timeout is pending at any time, so that a
\* timeout that fires undoes the emergency disable that scheduled it and
\* no other switch-off.
C27_OneReenablePending == reenable <= 1

(***************************************************************************)
(* The delay of the debounce under changes of the settings: auto-sync is   *)
(* enabled with valid credentials, both documents are published, and the   *)
(* user edits them and picks delays in the settings tab while syncs run.   *)
(***************************************************************************)
DelayChoices == {1500, 3000}

InitArm ==
    /\ settings \in {[DEFAULT_SETTINGS EXCEPT !.githubToken = "ghp_valid",
                                              !.imgurClientId = "abc123",
                                              !.enableAutoSync = TRUE,
                                              !.enableAdaptiveDebounce = adaptive,
                                              !.debounceDelay = delay] :
                         adaptive \in BOOLEAN, delay \in DelayChoices}
    /\ saved = settings
    /\ isPublishing = FALSE
    /\ adaptiveDebounce = NewAdaptiveDebounce(settings.debounceDelay)
    /\ timeoutId = 0
    /\ timers = [h \in 1..MaxTimers |-> NoTimer]
    /\ reenable = 0
    /\ docs = [d \in Docs |-> [url |-> "gist"]]
    /\ pub = IdlePub
    /\ pull = IdlePull
    /\ syncs = [s \in 1..MaxSyncs |-> IdleSync]
    /\ notices = <<>>
    /\ content = <<>>
    /\ result = <<>>

NextArm ==
    \/ \E d \in Docs : UserEdit(d, TRUE)
    \/ \E v \in DelayChoices : SetDebounceDelay(v)
    \/ \E v \in BOOLEAN : SetEnableAdaptiveDebounce(v)
    \/ \E h \in 1..MaxTimers : TimerFire(h)
    \/ \E s \in 1..MaxSyncs, headers \in Headers : SyncOk(s, headers)

SpecArm == InitArm /\ [][NextArm]_vars

\* C28: the delay a timeout is armed with is the debounceDelay of the
\* settings in force, times the multiplier of the quota last reported when
\* adaptive debounce is enabled, also after the user has picked another
\* debounceDelay.
C28_DelayFollowsSettings ==
    [][\A d \in Docs :
          (UserEdit(d, TRUE) /\ Qualifying(d)) =>
              IF settings.enableAdaptiveDebounce
              THEN 2 * timers'[timeoutId'].delay =
                       settings.debounceDelay
                           * TwiceMultiplier(adaptiveDebounce.rateLimit.limit
                                                 - adaptiveDebounce.rateLimit.remaining,
                                             adaptiveDebounce.rateLimit.limit)
              ELSE timers'[timeoutId'].delay = settings.debounceDelay]_vars


\* The step starts the request of an auto-sync of document d, which has
\* read the document in the same step.
SyncStartsFor(d) ==
    \E s \in DOMAIN syncs :
        syncs[s].pc = "idle" /\ syncs'[s] = [pc |-> "remote", file |-> d]

\* C29: with auto-sync enabled, an edit of a published document leaves a
\* timeout pending for the document, also while a manual publish is in
\* flight; and the timeout pending for a published document stays pending,
\* whatever is edited meanwhile, until it fires and starts a sync that
\* reads the document.
C29_EditsStayScheduled ==
    [][\A d \in Docs :
          /\ (UserEdit(d, TRUE) /\ settings.enableAutoSync /\ GistMatch(docs[d])) =>
                 PendingFor(d)' # {}
          /\ (/\ PendingFor(d) # {}
              /\ GistMatch(docs'[d])
              /\ ~\E h \in DOMAIN timers : SyncReadFail(h)) =>
                 (PendingFor(d)' # {} \/ SyncStartsFor(d))]_vars

(***************************************************************************)
(* Publish and pull in turn.  The document is published (the payload goes  *)
(* to the gist and the URL into the frontmatter) and pulled back (the      *)
(* content of the gist replaces the body); nobody edits the gist or the    *)
(* document in between.  The documents hold no image.                      *)
(***************************************************************************)
MaxCycles == 2
MaxRoundTripParts == 3

RoundTripParts ==
    {<<Dashes, Newline>>, <<Text, Newline>>,
     <<"[", "[", "page", "]", "]", Newline>>}

InitRoundTrip ==
    /\ \E s \in PublishSettings : AtRestWith(s)
    /\ content \in [doc : TextsOf(RoundTripParts, MaxRoundTripParts),
                    fileName : {<<"page", ".", "md">>}]
    /\ result = [doc |-> content.doc, gist |-> <<>>, cycles |-> 0]

\* publishNoteToGist succeeds on the document: the payload is sent and
\* finalizePublishing writes the URL of the gist.
PublishDocument ==
    /\ result.cycles < MaxCycles
    /\ result' = [result EXCEPT
                     !.gist = PrepareContentForPublishing(result.doc,
                                  content.fileName, settings),
                     !.doc = UpdateFrontmatterText(result.doc, GistUrl)]
    /\ notices' = ConversionNotice(result.doc, settings)
    /\ UNCHANGED <<content, settings, saved, isPublishing, adaptiveDebounce,
                   timeoutId, timers, reenable, docs, pub, pull, syncs>>

\* pullCurrentNoteFromGist succeeds on the document, at the instant stamp.
PullDocument(stamp) ==
    /\ result.gist # <<>>
    /\ GistMatchText(ParseFrontmatter(result.doc).frontmatter)
    /\ result' = [result EXCEPT
                     !.doc = PreserveFrontmatterForPull(
                                 ParseFrontmatter(result.doc), result.gist, stamp),
                     !.gist = <<>>,
                     !.cycles = @ + 1]
    /\ notices' = <<>>
    /\ UNCHANGED <<content, settings, saved, isPublishing, adaptiveDebounce,
                   timeoutId, timers, reenable, docs, pub, pull, syncs>>

NextRoundTrip ==
    \/ PublishDocument
    \/ \E stamp \in Instants : PullDocument(stamp)

SpecRoundTrip == InitRoundTrip /\ [][NextRoundTrip]_vars

\* The lines of the block other than the time of the pull.
OtherThanPulled(lines) ==
    SelectSeq(lines, LAMBDA line : ~StartsWithPulledKey(line))

\* C30: the pull of a document just published leaves the body of the
\* document as it was and its frontmatter as it was but for the time of
\* the pull, and the document does not grow over the cycles.
C30_RoundTrip ==
    [][\A stamp \in Instants :
          PullDocument(stamp) =>
              /\ ParseFrontmatter(result'.doc).content =
                     ParseFrontmatter(result.doc).content
              /\ OtherThanPulled(BlockLines(result'.doc)) =
                     OtherThanPulled(BlockLines(result.doc))
              /\ result.cycles >= 1 => Len(result'.doc) <= Len(result.doc)]_vars
=============================================================================
